---- MODULE Spec2Model ----
(***************************************************************************)
(* A model of the leafbuild front end:                                     *)
(*   - the recursive-descent parser of leafbuild-syntax (parser.rs), which *)
(*     drives a rowan GreenNodeBuilder over a raw token stream, and        *)
(*   - the hand-written lexer of libleaf (grammar/lexer.rs).               *)
(* Indices (index, meaningful_index, raw indices, byte offsets) keep the   *)
(* 0-based values of the source; TLA+ sequences are 1-based, so element i  *)
(* of a Vec is s[i + 1].                                                   *)
(***************************************************************************)
EXTENDS Integers, Sequences, FiniteSets, TLC

VARIABLES
    tokens,     \* the raw token stream handed to Parser (parse, line 403)
    parser,     \* run |-> the Parser struct of that run (lines 43-51)
    pc,         \* run |-> position of that run inside Parser::parse
    result,     \* run |-> the Parse value returned (lines 35-41), or NoParse
    input,      \* Lexer.input, as a sequence of one-character strings
    lexer,      \* the Lexer's iterator position (chars) and whether it has ended
    items       \* the items the Lexer's iterator has yielded so far

vars == <<tokens, parser, pc, result, input, lexer, items>>

(***************************************************************************)
(* Bounds of the model.                                                    *)
(***************************************************************************)
\* longest raw token stream drawn from the whole alphabet
MaxLen == 3
\* most operators in a same-level operator chain  a op b op c ...
MaxChain == 3
\* most positional/keyword arguments in a generated call
MaxArgs == 2
\* longest source text handed to the libleaf lexer
MaxSrcLen == 4
\* longest source text that begins a string literal
MaxStrLen == 7

\* longest source text made of white space and identifiers
MaxWsLen == 2

\* most characters of a source text with characters outside ASCII
MaxUtf8Len == 4

(***************************************************************************)
(* SyntaxKind, Option<SyntaxKind> and the Is / Trivia helpers.             *)
(***************************************************************************)
None == "None"

DefaultSpan == <<0, 0>>

is(opt, kind) == opt = kind

isnt(opt, kind) == opt # None /\ opt # kind

is_any(opt, kinds) == \E it \in kinds : is(opt, it)

is_trivia(k) == is_any(k, {"WHITESPACE", "LINE_COMMENT", "BLOCK_COMMENT"})

is_newline(k) == is(k, "NEWLINE")

is_meaningful(k) == ~is_trivia(k) /\ ~is_newline(k)

(***************************************************************************)
(* The raw token stream: (kind, text, span) triples whose texts are        *)
(* consecutive slices of the source.                                       *)
(***************************************************************************)
Lexeme ==
    [k \in {"WHITESPACE"} |-> " "] @@ [k \in {"NEWLINE"} |-> "\n"] @@
    [k \in {"LINE_COMMENT"} |-> "//c"] @@ [k \in {"BLOCK_COMMENT"} |-> "/*c*/"] @@
    [k \in {"ID"} |-> "x"] @@ [k \in {"NUMBER"} |-> "1"] @@
    [k \in {"STRING"} |-> "'s'"] @@ [k \in {"MULTILINE_STRING"} |-> "'''s'''"] @@
    [k \in {"L_PAREN"} |-> "("] @@ [k \in {"R_PAREN"} |-> ")"] @@
    [k \in {"L_BRACKET"} |-> "["] @@ [k \in {"R_BRACKET"} |-> "]"] @@
    [k \in {"L_BRACE"} |-> "{"] @@ [k \in {"R_BRACE"} |-> "}"] @@
    [k \in {"PLUS"} |-> "+"] @@ [k \in {"MINUS"} |-> "-"] @@
    [k \in {"ASTERISK"} |-> "*"] @@ [k \in {"SLASH"} |-> "/"] @@
    [k \in {"PERCENT"} |-> "%"] @@
    [k \in {"PLUS_EQ"} |-> "+="] @@ [k \in {"MINUS_EQ"} |-> "-="] @@
    [k \in {"MUL_EQ"} |-> "*="] @@ [k \in {"DIV_EQ"} |-> "/="] @@
    [k \in {"MOD_EQ"} |-> "%="] @@ [k \in {"EQ"} |-> "="] @@
    [k \in {"EQ_EQ"} |-> "=="] @@ [k \in {"NOT_EQ"} |-> "!="] @@
    [k \in {"LESS"} |-> "<"] @@ [k \in {"LESS_EQ"} |-> "<="] @@
    [k \in {"GREATER"} |-> ">"] @@ [k \in {"GREATER_EQ"} |-> ">="] @@
    [k \in {"SHIFT_LEFT"} |-> "<<"] @@ [k \in {"SHIFT_RIGHT"} |-> ">>"] @@
    [k \in {"DOT"} |-> "."] @@ [k \in {"COLON"} |-> ":"] @@
    [k \in {"QMARK"} |-> "?"] @@ [k \in {"SEMICOLON"} |-> ";"] @@
    [k \in {"COMMA"} |-> ","] @@ [k \in {"TILDE"} |-> "~"] @@
    [k \in {"AND_KW"} |-> "and"] @@ [k \in {"OR_KW"} |-> "or"] @@
    [k \in {"NOT_KW"} |-> "not"] @@ [k \in {"IN_KW"} |-> "in"] @@
    [k \in {"FN_KW"} |-> "fn"] @@ [k \in {"ELSE_KW"} |-> "else"] @@
    [k \in {"TRUE_KW"} |-> "true"] @@ [k \in {"FALSE_KW"} |-> "false"] @@
    [k \in {"LET_KW"} |-> "let"] @@ [k \in {"IF_KW"} |-> "if"] @@
    [k \in {"FOREACH_KW"} |-> "foreach"] @@
    [k \in {"CONTINUE_KW"} |-> "continue"] @@ [k \in {"BREAK_KW"} |-> "break"] @@
    [k \in {"RETURN_KW"} |-> "return"] @@ [k \in {"ERROR"} |-> "$"]

RECURSIVE SpanStart(_, _)
SpanStart(kinds, i) ==
    IF i = 0 THEN 0 ELSE SpanStart(kinds, i - 1) + Len(Lexeme[kinds[i]])

\* what the lexer of leafbuild-syntax collects for a source made of these lexemes
TokenStream(kinds) ==
    [i \in 1..Len(kinds) |->
        [kind |-> kinds[i],
         text |-> Lexeme[kinds[i]],
         span |-> <<SpanStart(kinds, i - 1), SpanStart(kinds, i)>>]]

RECURSIVE SourceText(_, _)
SourceText(toks, n) ==
    IF n = 0 THEN "" ELSE SourceText(toks, n - 1) \o toks[n].text

(***************************************************************************)
(* The rowan GreenNodeBuilder behind Parser.builder: `children` is the     *)
(* list of finished elements, `parents` the stack of open scopes, each     *)
(* with the position of its first child.  `ops` records the builder calls  *)
(* made so far, in order.                                                  *)
(***************************************************************************)
Leaf(kind, text) == [leaf |-> TRUE, kind |-> kind, text |-> text, ch |-> <<>>]

Node(kind, ch) == [leaf |-> FALSE, kind |-> kind, text |-> "", ch |-> ch]

Op(name, kind, ck, text) == [op |-> name, kind |-> kind, ck |-> ck, text |-> text]

panic(p, why) == IF p.panic # "" THEN p ELSE [p EXCEPT !.panic = why]

\* builder.token(kind, text)
token(p, kind, text) ==
    [p EXCEPT !.children = Append(@, Leaf(kind, text)),
              !.ops = Append(@, Op("token", kind, 0, text))]

start_node(p, kind) ==
    [p EXCEPT !.parents = Append(@, [kind |-> kind, first_child |-> Len(p.children)]),
              !.ops = Append(@, Op("start_node", kind, 0, ""))]

\* a checkpoint that counts the builder calls made so far
checkpoint_of_calls(p) == Len(p.ops)

checkpoint(p) == Len(p.children)

start_node_at(p, ck, kind) ==
    IF ck > Len(p.children)
    THEN panic(p, "checkpoint no longer valid, was finish_node called early?")
    ELSE IF p.parents # <<>> /\ ck < p.parents[Len(p.parents)].first_child
    THEN panic(p, "checkpoint no longer valid, was an unmatched start_node_at called?")
    ELSE [p EXCEPT !.parents = Append(@, [kind |-> kind, first_child |-> ck]),
                   !.ops = Append(@, Op("start_node_at", kind, ck, ""))]

finish_node(p) ==
    IF p.parents = <<>>
    THEN panic(p, "finish_node: no open node")
    ELSE IF p.parents[Len(p.parents)].first_child > Len(p.children)
    THEN panic(p, "finish_node: drain out of range")
    ELSE LET top == p.parents[Len(p.parents)]
             kids == SubSeq(p.children, top.first_child + 1, Len(p.children))
         IN [p EXCEPT !.parents = SubSeq(@, 1, Len(@) - 1),
                      !.children = Append(SubSeq(@, 1, top.first_child),
                                          Node(top.kind, kids)),
                      !.ops = Append(@, Op("finish_node", "", 0, ""))]

(***************************************************************************)
(* Parser: the cursor over the raw tokens and the meaningful index.        *)
(***************************************************************************)
\* tokens.iter().enumerate().filter(is_meaningful).map(|(index, token)| ...)
MeaningfulOf(toks, n) ==
    SelectSeq([i \in 1..n |-> [kind |-> toks[i].kind, index |-> i - 1]],
              LAMBDA m : is_meaningful(m.kind))

\* the Parser value built by `parse` before it calls Parser::parse
NewParser(toks) ==
    [tokens |-> toks,
     meaningful |-> MeaningfulOf(toks, Len(toks)),
     index |-> 0,
     meaningful_index |-> 0,
     parents |-> <<>>,
     children |-> <<>>,
     ops |-> <<>>,
     errors |-> <<>>,
     panic |-> ""]

RECURSIVE EmitFrom(_, _, _)
EmitFrom(p, from, to) ==
    IF from >= to THEN p
    ELSE EmitFrom(token(p, p.tokens[from + 1].kind, p.tokens[from + 1].text), from + 1, to)

\* a bump_raw_to that leaves out the first token of the slice
bump_raw_to_skipping(p, new_index) ==
    IF p.index > new_index THEN panic(p, "slice index starts past its end")
    ELSE IF new_index > Len(p.tokens) THEN panic(p, "range end index out of range")
    ELSE [EmitFrom(p, p.index + 1, new_index) EXCEPT !.index = new_index]

\* tokens[*index..new_index] panics unless index <= new_index <= tokens.len()
bump_raw_to(p, new_index) ==
    IF p.index > new_index THEN panic(p, "slice index starts past its end")
    ELSE IF new_index > Len(p.tokens) THEN panic(p, "range end index out of range")
    ELSE [EmitFrom(p, p.index, new_index) EXCEPT !.index = new_index]

bump(p) ==
    LET q == [p EXCEPT !.meaningful_index = @ + 1]
    IN IF q.meaningful_index < Len(q.meaningful)
       THEN bump_raw_to(q, q.meaningful[q.meaningful_index + 1].index)
       ELSE q

bump_last(p) ==
    LET q == IF p.meaningful_index < Len(p.meaningful)
             THEN bump_raw_to(p, p.meaningful[p.meaningful_index + 1].index + 1)
             ELSE p
    IN [q EXCEPT !.meaningful_index = @ + 1]

\* a bump_raw that counts every token it emits as a meaningful one
bump_raw_counting(p) ==
    IF p.index < Len(p.tokens)
    THEN LET tk == p.tokens[p.index + 1]
             q == [p EXCEPT !.meaningful_index = @ + 1]
         IN [token(q, tk.kind, tk.text) EXCEPT !.index = @ + 1]
    ELSE p

bump_raw(p) ==
    IF p.index < Len(p.tokens)
    THEN LET tk == p.tokens[p.index + 1]
             atNext == p.meaningful_index + 1 < Len(p.meaningful)
                       /\ p.index = p.meaningful[p.meaningful_index + 2].index
             q == IF atNext THEN [p EXCEPT !.meaningful_index = @ + 1] ELSE p
         IN [token(q, tk.kind, tk.text) EXCEPT !.index = @ + 1]
    ELSE p

current(p) ==
    IF p.meaningful_index < Len(p.meaningful)
    THEN p.meaningful[p.meaningful_index + 1].kind
    ELSE None

current_span(p) ==
    IF p.meaningful_index < Len(p.meaningful)
    THEN p.tokens[p.meaningful[p.meaningful_index + 1].index + 1].span
    ELSE DefaultSpan

current_raw(p) ==
    IF p.index < Len(p.tokens) THEN p.tokens[p.index + 1].kind ELSE None

current_span_raw(p) ==
    IF p.index < Len(p.tokens) THEN p.tokens[p.index + 1].span ELSE DefaultSpan

\* first raw token at or after position `from` that is not trivia
RECURSIVE FindNonTrivia(_, _)
FindNonTrivia(p, from) ==
    IF from >= Len(p.tokens) THEN None
    ELSE IF is_trivia(p.tokens[from + 1].kind) THEN FindNonTrivia(p, from + 1)
    ELSE p.tokens[from + 1].kind

\* tokens[from..] panics when `from` lies beyond the end of the Vec
slice_from_panics(p, from) == from > Len(p.tokens)

next_nontrivia(p) == FindNonTrivia(p, p.index)

\* a lookahead that starts at the cursor itself
next_nontrivia_at_cursor(p) == FindNonTrivia(p, p.index)

\* what the panic of tokens[from..] reports when `from` lies beyond the end
RangeStartPanic == "range start index out of range"

\* self.tokens[self.index + 1..] panics when the cursor is at the end of the
\* Vec; the outcome is then the panic, otherwise the kind found or None
next_nontrivia_lookahead(p) ==
    IF slice_from_panics(p, p.index + 1) THEN RangeStartPanic
    ELSE FindNonTrivia(p, p.index + 1)

\* p.error(): an ERROR leaf with empty text
error(p) == token(p, "ERROR", "")

(***************************************************************************)
(* ParseResult: Ok(()) or one of the ParseError variants.  A panic of the  *)
(* Rust code (assert!, unwrap, unreachable!, slice bounds) unwinds through *)
(* every caller; it is the result tagged "Panic".                          *)
(***************************************************************************)
Res(p, tag, tk, span, found) ==
    [p |-> p, ok |-> tag = "Ok", tag |-> tag, tk |-> tk, span |-> span, found |-> found]

Panicked(p) == Res(p, "Panic", <<>>, DefaultSpan, None)

Ok(p) == IF p.panic # "" THEN Panicked(p) ELSE Res(p, "Ok", <<>>, DefaultSpan, None)

Eof(p) == Res(p, "Eof", <<>>, DefaultSpan, None)

Incomplete(p) == Res(p, "Incomplete", <<>>, DefaultSpan, None)

UnexpectedToken(p, tk, span) == Res(p, "UnexpectedToken", <<tk>>, span, None)

ExpectedToken(p, tk, span, found) == Res(p, "ExpectedToken", <<tk>>, span, found)

ExpectedTokens(p, tks, span) == Res(p, "ExpectedTokens", tks, span, None)

\* an unexpected token that is consumed before it is reported
as_unexpected_token_consumed(p, kind, span) == UnexpectedToken(bump(p), kind, span)

as_unexpected_token(p, kind, span) == UnexpectedToken(p, kind, span)

\* the `?` operator: go on with F only after Ok
Try(r, F(_)) == IF r.ok THEN F(r.p) ELSE r

map_incomplete(r) == [r EXCEPT !.tag = IF @ = "Eof" THEN "Incomplete" ELSE @]

bump_if(p, kinds) ==
    IF current(p) # None /\ current(p) \in kinds
    THEN [p |-> bump(p), bumped |-> TRUE]
    ELSE [p |-> p, bumped |-> FALSE]

RECURSIVE SkipTrivia(_)
SkipTrivia(p) == IF is_trivia(current_raw(p)) THEN SkipTrivia(bump_raw(p)) ELSE p

require_newline(p) ==
    LET q == SkipTrivia(p)
    IN IF current_raw(q) = "NEWLINE" THEN Ok(bump_raw(q))
       ELSE IF current_raw(q) # None
       THEN as_unexpected_token(q, current_raw(q), current_span_raw(q))
       ELSE Eof(q)

skip_trivia_and_single_newline(p) == require_newline(p)

parse_single_tok(p, kind) ==
    LET b == bump_if(p, {kind})
    IN IF ~b.bumped
       THEN ExpectedToken(error(p), kind, current_span(p),
                          IF current(p) = None THEN "ERROR" ELSE current(p))
       ELSE Ok(b.p)

\* finish_node() after the closure has returned, whatever it returned
Finished(r) ==
    LET q == finish_node(r.p)
    IN IF q.panic # "" THEN Panicked(q) ELSE [r EXCEPT !.p = q]

parse_node(p, kind, F(_)) ==
    LET r == F(start_node(p, kind))
    IN CASE r.ok -> Finished(r)
         [] r.tag = "Panic" -> r
         [] OTHER -> Finished(r)

parse_node_at(p, ck, kind, F(_)) ==
    LET s == start_node_at(p, ck, kind)
        r == F(s)
    IN CASE s.panic # "" -> Panicked(s)
         [] r.ok -> Finished(r)
         [] r.tag = "Panic" -> r
         [] OTHER -> Finished(r)

(***************************************************************************)
(* The grammar functions.                                                  *)
(***************************************************************************)
ExprStartKinds ==
    {"L_PAREN", "L_BRACKET", "L_BRACE", "PLUS", "MINUS", "NOT_KW", "TRUE_KW",
     "FALSE_KW", "NUMBER", "ID", "STRING", "MULTILINE_STRING"}

AssignmentOps == {"PLUS_EQ", "MINUS_EQ", "MUL_EQ", "DIV_EQ", "MOD_EQ", "EQ"}

NotStatementStartKinds ==
    {"R_PAREN", "R_BRACKET", "R_BRACE", "PLUS_EQ", "MINUS_EQ", "MUL_EQ", "DIV_EQ",
     "MOD_EQ", "ASTERISK", "SLASH", "PERCENT", "EQ_EQ", "GREATER_EQ", "GREATER",
     "LESS_EQ", "LESS", "NOT_EQ", "EQ", "SHIFT_LEFT", "SHIFT_RIGHT", "DOT", "COLON",
     "QMARK", "SEMICOLON", "COMMA", "TILDE", "AND_KW", "OR_KW", "IN_KW", "FN_KW",
     "ELSE_KW", "ERROR"}

\* call(fn, p) is the call fn(p) of a grammar function that is defined further
\* down (the grammar functions are mutually recursive)
RECURSIVE call(_, _)
RECURSIVE parse_tt_loop(_, _, _, _)
RECURSIVE parse_precedence_1_loop(_, _)
RECURSIVE parse_precedence_2_expr(_)
RECURSIVE parse_infix_binop(_, _, _, _)
RECURSIVE parse_precedence_expr(_, _)
RECURSIVE parse_infix_binop_loop(_, _, _)
RECURSIVE parse_conditional_loop(_)

is_tuple_expr_start(p) == is(current(p), "L_PAREN")

is_array_expr_start(p) == is(current(p), "L_BRACKET")

is_conditional_start(p) == is(current(p), "IF_KW")

is_expr_block_start(p) == is(current(p), "L_BRACE")

is_string_lit(p) == is_any(current(p), {"STRING", "MULTILINE_STRING"})

is_kexpr_start(p) == is(current(p), "ID") /\ is(next_nontrivia_lookahead(p), "EQ")

\* `&&` evaluates the lookahead only after current().is(ID); its panic unwinds
\* through is_kexpr_start
is_kexpr_start_panics(p) ==
    is(current(p), "ID") /\ next_nontrivia_lookahead(p) = RangeStartPanic

\* the element parser handed to parse_tt as `f`
parse_tt_loop(p, separator, end_tok, f) ==
    IF ~isnt(current(p), end_tok) THEN Ok(p)
    ELSE Try(map_incomplete(call(f, p)), LAMBDA q :
           IF separator # None
           THEN LET b == bump_if(q, {separator})
                IN IF ~b.bumped /\ isnt(current(b.p), end_tok)
                   THEN ExpectedTokens(error(b.p), <<end_tok, separator>>,
                                       current_span(b.p))
                   ELSE Try(Ok(b.p), LAMBDA n : parse_tt_loop(n, separator, end_tok, f))
           ELSE parse_tt_loop(q, separator, end_tok, f))

parse_tt(p, outer_kind, start_tok, separator, end_tok, f) ==
    IF ~is(current(p), start_tok)
    THEN Panicked(panic(p, "assertion failed: p.current().is(start_tok)"))
    ELSE parse_node(p, outer_kind, LAMBDA q :
           Try(Ok(bump(q)), LAMBDA q1 :
           Try(parse_tt_loop(q1, separator, end_tok, f), LAMBDA q2 :
           \* consume the end token
           Ok(bump_last(q2)))))

parse_tuple_expr(p) ==
    IF ~is_tuple_expr_start(p)
    THEN Panicked(panic(p, "assertion failed: is_tuple_expr_start(p)"))
    ELSE parse_tt(p, "TupleExpr", "L_PAREN", "COMMA", "R_PAREN", "parse_expr")

parse_array_expr(p) ==
    IF ~is_array_expr_start(p)
    THEN Panicked(panic(p, "assertion failed: is_array_expr_start(p)"))
    ELSE parse_tt(p, "ArrayLitExpr", "L_BRACKET", "COMMA", "R_BRACKET", "parse_expr")

parse_string(p) ==
    IF ~is_string_lit(p)
    THEN Panicked(panic(p, "assertion failed: is_string_lit(p)"))
    ELSE parse_node(p, "StrLit", LAMBDA q : Ok(bump_last(q)))

parse_expr_block(p) ==
    parse_tt(p, "ExprBlock", "L_BRACE", None, "R_BRACE", "parse_statement")

parse_primary(p) ==
    parse_node(p, "PrimaryExpr", LAMBDA q :
      CASE is_array_expr_start(q) -> parse_array_expr(q)
        [] is_tuple_expr_start(q) -> parse_tuple_expr(q)
        [] is_conditional_start(q) -> call("parse_conditional", q)
        [] is_expr_block_start(q) -> call("parse_expr_block", q)
        [] is_any(current(q), {"NUMBER", "ID"}) -> Ok(bump_last(q))
        [] is_string_lit(q) -> parse_string(q)
        [] OTHER ->
            LET e == error(q)
            IN IF current(e) = None THEN Eof(e)
               ELSE as_unexpected_token(e, current(e), current_span(e)))

parse_f_call(p, ck) ==
    parse_node_at(p, ck, "FuncCallExpr", LAMBDA q :
      parse_tt(q, "FuncCallArgs", "L_PAREN", "COMMA", "R_PAREN", "parse_farg"))

parse_kexpr(p) ==
    IF is_kexpr_start_panics(p) THEN Panicked(panic(p, RangeStartPanic))
    ELSE IF ~is_kexpr_start(p)
    THEN Panicked(panic(p, "assertion failed: is_kexpr_start(p)"))
    ELSE parse_node(p, "KExpr", LAMBDA q :
           Try(Ok(bump(q)), LAMBDA q1 :
           Try(parse_single_tok(q1, "EQ"), LAMBDA q2 :
           call("parse_expr", q2))))

parse_farg(p) ==
    IF is_kexpr_start_panics(p) THEN Panicked(panic(p, RangeStartPanic))
    ELSE IF is_kexpr_start(p) THEN parse_kexpr(p)
    ELSE call("parse_expr", p)

parse_index_expr(p, ck) ==
    IF ~is(current(p), "L_BRACKET")
    THEN Panicked(panic(p, "assertion failed: p.current().is(L_BRACKET)"))
    ELSE parse_node_at(p, ck, "IndexedExpr", LAMBDA q :
           parse_node(q, "IndexedExprBrackets", LAMBDA q1 :
             Try(Ok(bump(q1)), LAMBDA q2 :          \* '['
             Try(call("parse_expr", q2), LAMBDA q3 :        \* expr
             parse_single_tok(q3, "R_BRACKET")))))

parse_precedence_1_loop(p, ck) ==
    IF is_any(current(p), {"L_PAREN", "L_BRACKET"})
    THEN Try(IF is(current(p), "L_PAREN") THEN parse_f_call(p, ck)
             ELSE parse_index_expr(p, ck),
             LAMBDA q : parse_precedence_1_loop(q, ck))
    ELSE Ok(p)

parse_precedence_1_expr(p) ==
    LET ck == checkpoint(p)
    IN Try(parse_primary(p), LAMBDA q : parse_precedence_1_loop(q, ck))

parse_precedence_2_expr(p) ==
    IF is_any(current(p), {"PLUS", "MINUS"})
    THEN parse_node(p, "PrefixUnaryOpExpr", LAMBDA q :
           Try(Ok(bump(q)), LAMBDA q1 : parse_precedence_2_expr(q1)))
    ELSE parse_precedence_1_expr(p)

\* the operator sets with those of levels 3 and 4 exchanged
InfixOps_exchanged ==
    [lvl \in 3..9 |->
        CASE lvl = 3 -> {"PLUS", "MINUS"}
          [] lvl = 4 -> {"ASTERISK", "SLASH", "PERCENT"}
          [] lvl = 5 -> {"SHIFT_LEFT", "SHIFT_RIGHT"}
          [] lvl = 6 -> {"LESS", "LESS_EQ", "GREATER", "GREATER_EQ"}
          [] lvl = 7 -> {"EQ_EQ", "NOT_EQ"}
          [] lvl = 8 -> {"AND_KW"}
          [] lvl = 9 -> {"OR_KW"}]

\* the operator sets of parse_precedence_3_expr .. parse_precedence_9_expr
InfixOps ==
    [lvl \in 3..9 |->
        CASE lvl = 3 -> {"ASTERISK", "SLASH", "PERCENT"}
          [] lvl = 4 -> {"PLUS", "MINUS"}
          [] lvl = 5 -> {"SHIFT_LEFT", "SHIFT_RIGHT"}
          [] lvl = 6 -> {"LESS", "LESS_EQ", "GREATER", "GREATER_EQ"}
          [] lvl = 7 -> {"EQ_EQ", "NOT_EQ"}
          [] lvl = 8 -> {"AND_KW"}
          [] lvl = 9 -> {"OR_KW"}]

\* the while loop of parse_infix_binop at level `lvl`, whose `lower` is
\* parse_precedence_<lvl - 1>_expr
parse_infix_binop_loop(p, ck, lvl) ==
    IF is_any(current(p), InfixOps[lvl])
    THEN Try(parse_node_at(p, ck, "InfixBinOpExpr", LAMBDA q :
               Try(Ok(bump(q)), LAMBDA q1 : parse_precedence_expr(lvl - 1, q1))),
             LAMBDA n : parse_infix_binop_loop(n, ck, lvl))
    ELSE Ok(p)

\* parse_infix_binop at levels lvl..top, given the result `r` of level lvl - 1:
\* `lower(p)?` returns its error unchanged, otherwise the level's loop runs and
\* its result is what the level above receives from its own `lower(p)?`
parse_infix_binop(r, ck, lvl, top) ==
    IF r.ok /\ lvl <= top
    THEN parse_infix_binop(parse_infix_binop_loop(r.p, ck, lvl), ck, lvl + 1, top)
    ELSE r

\* the levels with their checkpoint taken after the left operand
parse_precedence_expr_late(top, p) ==
    IF top = 2 THEN parse_precedence_2_expr(p)
    ELSE LET r == parse_precedence_2_expr(p)
         IN parse_infix_binop(r, checkpoint(r.p), 3, top)

\* parse_precedence_<top>_expr.  Every level from `top` down to 3 takes its
\* checkpoint and calls the level below before anything else, so all of them
\* hold the checkpoint of the position where level 2 starts.
parse_precedence_expr(top, p) ==
    IF top = 2 THEN parse_precedence_2_expr(p)
    ELSE parse_infix_binop(parse_precedence_2_expr(p), checkpoint(p), 3, top)

parse_precedence_9_expr(p) == parse_precedence_expr(9, p)

\* parse_expr with its Expr node left open when the expression fails
parse_expr_unclosed(p) ==
    LET r == parse_precedence_9_expr(start_node(p, "Expr"))
    IN IF r.tag = "Ok" THEN Ok(finish_node(r.p)) ELSE r

parse_expr(p) == parse_node(p, "Expr", LAMBDA q : parse_precedence_9_expr(q))

\* parse_declaration whose last step passes Eof on as it is
parse_declaration_eof(p) ==
    parse_node(p, "Declaration", LAMBDA q :
      Try(Ok(bump(q)), LAMBDA q1 :
      Try(map_incomplete(parse_single_tok(q1, "ID")), LAMBDA q2 :
      Try(map_incomplete(parse_single_tok(q2, "EQ")), LAMBDA q3 :
      Try(map_incomplete(call("parse_expr", q3)), LAMBDA q4 :
      require_newline(q4))))))

parse_declaration(p) ==
    IF ~is(current(p), "LET_KW")
    THEN Panicked(panic(p, "assertion failed: p.current().is(LET_KW)"))
    ELSE parse_node(p, "Declaration", LAMBDA q :
           Try(Ok(bump(q)), LAMBDA q1 :                                \* LET_KW
           Try(map_incomplete(parse_single_tok(q1, "ID")), LAMBDA q2 :
           Try(map_incomplete(parse_single_tok(q2, "EQ")), LAMBDA q3 :
           Try(map_incomplete(call("parse_expr", q3)), LAMBDA q4 :
           map_incomplete(require_newline(q4)))))))

parse_conditional_branch(p) ==
    IF ~is(current(p), "IF_KW")
    THEN Panicked(panic(p, "assertion failed: p.current().is(IF_KW)"))
    ELSE parse_node(p, "ConditionalBranch", LAMBDA q :
           \* consume the IF_KW
           Try(Ok(bump(q)), LAMBDA q1 :
           Try(map_incomplete(call("parse_expr", q1)), LAMBDA q2 :
           map_incomplete(call("parse_expr_block", q2)))))

parse_conditional_loop(p) ==
    IF is(current(p), "ELSE_KW")
    THEN Try(Ok(bump(p)), LAMBDA q :
           IF is(current(q), "IF_KW")
           THEN Try(map_incomplete(parse_conditional_branch(q)),
                    LAMBDA n : parse_conditional_loop(n))
           ELSE map_incomplete(call("parse_expr_block", q)))
    ELSE Ok(p)

parse_conditional(p) ==
    IF ~is_conditional_start(p)
    THEN Panicked(panic(p, "assertion failed: is_conditional_start(p)"))
    ELSE parse_node(p, "Conditional", LAMBDA q :
           Try(map_incomplete(parse_conditional_branch(q)),
               LAMBDA q1 : parse_conditional_loop(q1)))

parse_foreach(p) ==
    IF ~is(current(p), "FOREACH_KW")
    THEN Panicked(panic(p, "assertion failed: p.current().is(FOREACH_KW)"))
    ELSE parse_node(p, "Foreach", LAMBDA q :
           Try(Ok(bump(q)), LAMBDA q1 :                                \* FOREACH_KW
           Try(map_incomplete(call("parse_expr", q1)), LAMBDA q2 :
           Try(parse_single_tok(q2, "IN_KW"), LAMBDA q3 :
           Try(map_incomplete(call("parse_expr", q3)), LAMBDA q4 :
           map_incomplete(call("parse_expr_block", q4)))))))

parse_control_stmt(p) ==
    parse_node(p, "ControlStatement", LAMBDA q :
      CASE current(q) = "CONTINUE_KW" ->
             Try(Ok(bump(q)), LAMBDA q1 : skip_trivia_and_single_newline(q1))
        [] current(q) \in {"RETURN_KW", "BREAK_KW"} ->
             Try(Ok(bump(q)), LAMBDA q1 :
               CASE slice_from_panics(q1, q1.index) ->
                      Panicked(panic(q1, RangeStartPanic))
                 [] OTHER ->
                      IF isnt(next_nontrivia(q1), "NEWLINE")
                      THEN Try(call("parse_expr", q1),
                               LAMBDA q2 : skip_trivia_and_single_newline(q2))
                      ELSE skip_trivia_and_single_newline(q1))
        [] current(q) \notin {"CONTINUE_KW", "RETURN_KW", "BREAK_KW", None} ->
             as_unexpected_token(q, current(q), current_span(q))
        [] current(q) = None -> Incomplete(q))

parse_statement(p) ==
    LET tok == current(p)
        assignment_checkpoint == checkpoint(p)
    IN CASE tok = None -> Eof(p)
         [] tok \in ExprStartKinds ->
              Try(call("parse_expr", p), LAMBDA q :
                IF is_any(current(q), AssignmentOps)
                THEN parse_node_at(q, assignment_checkpoint, "Assignment", LAMBDA q1 :
                       \* consume the `=` / `+=` / ...
                       Try(Ok(bump(q1)), LAMBDA q2 :
                       Try(call("parse_expr", q2), LAMBDA q3 :
                       require_newline(q3))))
                ELSE Ok(q))
         [] tok \in NotStatementStartKinds -> as_unexpected_token(p, tok, current_span(p))
         [] tok = "LET_KW" -> parse_declaration(p)
         [] tok = "IF_KW" -> call("parse_conditional", p)
         [] tok = "FOREACH_KW" -> parse_foreach(p)
         [] tok \in {"CONTINUE_KW", "BREAK_KW", "RETURN_KW"} -> parse_control_stmt(p)
         [] OTHER -> Panicked(panic(p, "internal error: entered unreachable code"))

call(fn, p) ==
    CASE fn = "parse_statement" -> parse_statement(p)
      [] fn = "parse_expr" -> parse_expr(p)
      [] fn = "parse_farg" -> parse_farg(p)
      [] fn = "parse_conditional" -> parse_conditional(p)
      [] fn = "parse_expr_block" -> parse_expr_block(p)

parse_lang_item(p) == Try(call("parse_statement", p), LAMBDA q : Ok(q))

(***************************************************************************)
(* Parser::parse, one step at a time: the ROOT node is opened, the Program *)
(* loop takes one parse_lang_item per step and matches on its result, then *)
(* ROOT is closed and builder.finish() yields the Parse value.             *)
(***************************************************************************)
NoParse == [green_node |-> Node("", <<>>), errors |-> <<>>]

Diag(msg, tk, found, span) == [msg |-> msg, tk |-> tk, found |-> found, span |-> span]

\* the (String, Span) pushed for each ParseError variant that carries one: the
\* format string's fixed words, and the token names that fill its holes
Diagnostic(res) ==
    CASE res.tag = "Incomplete" -> Diag("incomplete", <<>>, None, DefaultSpan)
      [] res.tag = "UnexpectedToken" -> Diag("unexpected", res.tk, None, res.span)
      [] res.tag = "ExpectedToken" ->
            Diag("expected token, found token", res.tk, res.found, res.span)
      [] res.tag = "ExpectedTokens" -> Diag("expected one of", res.tk, None, res.span)

HaltingErrors == {"Error", "UnexpectedToken", "ExpectedToken", "ExpectedTokens"}

push_error(p, d) == [p EXCEPT !.errors = Append(@, d)]

\* parse_node(ROOT, ...): start_node(ROOT)
Begin(r) ==
    /\ pc[r] = "start"
    /\ parser' = [parser EXCEPT ![r] = start_node(@, "ROOT")]
    /\ pc' = [pc EXCEPT ![r] = "loop"]
    /\ UNCHANGED <<tokens, result, input, lexer, items>>

\* an Ok arm that puts meaningful_index back where the statement began
StatementOk_rewinds(r) ==
    /\ pc[r] = "loop"
    /\ LET res == parse_lang_item(parser[r])
       IN /\ res.tag = "Ok"
          /\ parser' = [parser EXCEPT ![r] =
                           [res.p EXCEPT !.meaningful_index = parser[r].meaningful_index]]
    /\ UNCHANGED <<tokens, pc, result, input, lexer, items>>

\* Ok(()) => {}
StatementOk(r) ==
    /\ pc[r] = "loop"
    /\ LET res == parse_lang_item(parser[r])
       IN /\ res.tag = "Ok"
          /\ parser' = [parser EXCEPT ![r] = res.p]
    /\ UNCHANGED <<tokens, pc, result, input, lexer, items>>

\* Err(ParseError::Incomplete) => push "incomplete", keep looping
StatementIncomplete(r) ==
    /\ pc[r] = "loop"
    /\ LET res == parse_lang_item(parser[r])
       IN /\ res.tag = "Incomplete"
          /\ parser' = [parser EXCEPT ![r] = push_error(res.p, Diagnostic(res))]
    /\ UNCHANGED <<tokens, pc, result, input, lexer, items>>

\* the arms of the halting errors without their `break`
StatementHalts_continues(r) ==
    /\ pc[r] = "loop"
    /\ LET res == parse_lang_item(parser[r])
       IN /\ res.tag \in HaltingErrors
          /\ parser' = [parser EXCEPT ![r] = push_error(res.p, Diagnostic(res))]
    /\ UNCHANGED <<tokens, pc, result, input, lexer, items>>

\* Err(Error | UnexpectedToken | ExpectedToken | ExpectedTokens) => push, break
StatementHalts(r) ==
    /\ pc[r] = "loop"
    /\ LET res == parse_lang_item(parser[r])
       IN /\ res.tag \in HaltingErrors
          /\ parser' = [parser EXCEPT ![r] = push_error(res.p, Diagnostic(res))]
    /\ pc' = [pc EXCEPT ![r] = "break"]
    /\ UNCHANGED <<tokens, result, input, lexer, items>>

\* Err(ParseError::Eof) => break
EndOfInput(r) ==
    /\ pc[r] = "loop"
    /\ LET res == parse_lang_item(parser[r])
       IN /\ res.tag = "Eof"
          /\ parser' = [parser EXCEPT ![r] = res.p]
    /\ pc' = [pc EXCEPT ![r] = "break"]
    /\ UNCHANGED <<tokens, result, input, lexer, items>>

\* an assert!, unwrap, unreachable! or slice index fails inside the grammar
Panics(r) ==
    /\ pc[r] = "loop"
    /\ LET res == parse_lang_item(parser[r])
       IN /\ res.tag = "Panic"
          /\ parser' = [parser EXCEPT ![r] = res.p]
    /\ pc' = [pc EXCEPT ![r] = "panicked"]
    /\ UNCHANGED <<tokens, result, input, lexer, items>>

\* finish_node() of ROOT, then Parse { green_node: builder.finish(), errors }
Finish(r) ==
    /\ pc[r] = "break"
    /\ LET q == finish_node(parser[r])
           f == IF q.panic # "" THEN q
                ELSE IF Len(q.children) # 1 \/ q.children[1].leaf
                THEN panic(q, "builder.finish(): assertion failed")
                ELSE q
       IN /\ parser' = [parser EXCEPT ![r] = f]
          /\ IF f.panic # ""
             THEN /\ pc' = [pc EXCEPT ![r] = "panicked"]
                  /\ UNCHANGED result
             ELSE /\ pc' = [pc EXCEPT ![r] = "done"]
                  /\ result' = [result EXCEPT ![r] =
                                   [green_node |-> f.children[1], errors |-> f.errors]]
    /\ UNCHANGED <<tokens, input, lexer, items>>

(***************************************************************************)
(* The lexer of libleaf: an iterator over the characters of `input` that   *)
(* yields Ok((start, Tok, end)) or Err(LexicalError).  `pos` is the number *)
(* of characters self.chars has given out; a source is a sequence of       *)
(* one-character strings, all ASCII, so a character's index is its byte    *)
(* offset.                                                                 *)
(***************************************************************************)
Quote == "'"

AsciiLower ==
    {"a", "b", "c", "d", "e", "f", "g", "h", "i", "j", "k", "l", "m", "n", "o", "p",
     "q", "r", "s", "t", "u", "v", "w", "x", "y", "z"}

AsciiUpper ==
    {"A", "B", "C", "D", "E", "F", "G", "H", "I", "J", "K", "L", "M", "N", "O", "P",
     "Q", "R", "S", "T", "U", "V", "W", "X", "Y", "Z"}

DecDigits == <<"0", "1", "2", "3", "4", "5", "6", "7", "8", "9">>

is_ascii_digit(c) == \E i \in DOMAIN DecDigits : DecDigits[i] = c

is_ascii_alphabetic(c) == c \in AsciiLower \cup AsciiUpper

is_ascii_alphanumeric(c) == is_ascii_alphabetic(c) \/ is_ascii_digit(c)

is_ascii_hexdigit(c) ==
    is_ascii_digit(c) \/ c \in {"a", "b", "c", "d", "e", "f", "A", "B", "C", "D", "E", "F"}

is_oct_digit(c) == c \in {"0", "1", "2", "3", "4", "5", "6", "7"}

\* U+000B, the vertical tab, for which TLA+ strings have no escape
VerticalTab == ""

\* char::is_whitespace on the ASCII characters a source is made of:
\* U+0009..U+000D and the space
is_whitespace(c) == c \in {" ", "\t", "\n", VerticalTab, "\f", "\r"}

\* (chr as u8 - b'0') as i32
decdigit_value(c) == (CHOOSE i \in DOMAIN DecDigits : DecDigits[i] = c) - 1

octdigit_value(c) == decdigit_value(c)

\* chr - b'a' and chr - b'A' for the letters
hexdigit_value(c) ==
    CASE is_ascii_digit(c) -> decdigit_value(c)
      [] c \in {"a", "A"} -> 0
      [] c \in {"b", "B"} -> 1
      [] c \in {"c", "C"} -> 2
      [] c \in {"d", "D"} -> 3
      [] c \in {"e", "E"} -> 4
      [] c \in {"f", "F"} -> 5
      [] OTHER -> 0

\* A source is the sequence of the bytes of its UTF-8 text, so that an index
\* into it is the byte offset char_indices reports.  An ASCII character is one
\* byte.  U+00E9 is two: the element EAcute, which stands for the character at
\* the offset of its first byte, and the element Continuation for its second.
EAcute == "é"

Continuation == "10xxxxxx"

\* char::len_utf8
len_utf8(c) == IF c = EAcute THEN 2 ELSE 1

NewLexer == [pos |-> 0, state |-> "ready"]

\* self.chars.peek(): the character at byte offset `pos`, None at the end of
\* the input
peek(src, pos) == IF pos < Len(src) THEN src[pos + 1] ELSE None

\* where a peeking_take_while started at `from` stops: the offset of the first
\* character that is rejected, or the end of the input
TakeWhile(src, from, Accepts(_)) ==
    LET rejected == {i \in from..(Len(src) - 1) :
                        src[i + 1] # Continuation /\ ~Accepts(src[i + 1])}
    IN IF rejected = {} THEN Len(src)
       ELSE CHOOSE i \in rejected : \A j \in rejected : i <= j

\* the offset of the character that ends just before offset `stop`
CharBefore(src, stop) == IF src[stop] = Continuation THEN stop - 2 ELSE stop - 1

NoLoc == <<>>

\* Some(Ok((start, tok, end))); `str`, `num` and `loc` are the token's payload
OkItem(start, tok, str, num, loc, end) ==
    [tag |-> "Ok", start |-> start, tok |-> tok, str |-> str, num |-> num,
     loc |-> loc, end |-> end]

\* Some(Err(error)) with the error's location
ErrItem(err, location) ==
    [tag |-> "Err", start |-> location, tok |-> err, str |-> <<>>, num |-> 0,
     loc |-> NoLoc, end |-> location]

NoItem(tag) ==
    [tag |-> tag, start |-> 0, tok |-> "", str |-> <<>>, num |-> 0, loc |-> NoLoc,
     end |-> 0]

\* what one call leaves behind: the new position of self.chars and the value
Yield(pos, item) == [pos |-> pos, item |-> item]

Lexer_parse_identifier(src, initial_position) ==
    LET stop == TakeWhile(src, initial_position + 1,
                          LAMBDA c : is_ascii_alphanumeric(c) \/ c = "_")
        \* the position of the last character the closure was called on
        next_position ==
            IF initial_position + 1 >= Len(src) THEN initial_position + 1
            ELSE IF stop < Len(src) THEN stop
            ELSE Len(src) - 1
    IN Yield(stop,
             OkItem(initial_position, "Identifier",
                    SubSeq(src, initial_position + 1, stop), 0,
                    <<initial_position, next_position>>, next_position))

RECURSIVE NumberValue(_, _, _, _, _)
\* num = num * base + digit over the characters at from .. to - 1; a source of
\* at most MaxSrcLen + 1 characters keeps num far inside the range of i32
NumberValue(src, from, to, base, num) ==
    IF from >= to THEN num
    ELSE NumberValue(src, from + 1, to, base,
                     num * base + (IF base = 16 THEN hexdigit_value(src[from + 1])
                                   ELSE decdigit_value(src[from + 1])))

Lexer_parse_number(src, initial_position, initial_char) ==
    LET at == initial_position + 1
        number(from, stop, base, num0) ==
            Yield(stop, OkItem(initial_position, "Number", <<>>,
                               NumberValue(src, from, stop, base, num0),
                               <<initial_position, stop>>, stop))
    IN CASE peek(src, at) = None ->
              Yield(at, OkItem(initial_position, "Number", <<>>,
                               decdigit_value(initial_char),
                               <<initial_position, initial_position + 1>>,
                               initial_position + 1))
         [] peek(src, at) # None /\ initial_char = "0" /\ peek(src, at) = "x" ->
              \* parse as hex
              number(at + 1, TakeWhile(src, at + 1, is_ascii_hexdigit), 16, 0)
         [] peek(src, at) # None /\ initial_char = "0" /\ peek(src, at) # "x" ->
              \* parse as oct
              number(at, TakeWhile(src, at, is_oct_digit), 8, 0)
         [] peek(src, at) # None /\ initial_char # "0" ->
              number(at, TakeWhile(src, at, is_ascii_digit), 10,
                     decdigit_value(initial_char))

\* where the closure of the multiline branch first returns false: at a quote
\* when the two characters it saw before were quotes too
MultilineStop(src, from) ==
    LET closing == {i \in (from + 2)..(Len(src) - 1) :
                       src[i + 1] = Quote /\ src[i] = Quote /\ src[i - 1] = Quote}
    IN IF closing = {} THEN Len(src)
       ELSE CHOOSE i \in closing : \A j \in closing : i <= j

Lexer_parse_string(src, initial_position) ==
    LET at == initial_position + 1
    IN CASE peek(src, at) = None ->
              Yield(at, ErrItem("StringStartedButNotEnded", initial_position))
         [] peek(src, at) = Quote /\ peek(src, at + 1) = Quote ->
              \* parse multiline string
              LET stop == MultilineStop(src, at + 2)
              IN IF stop >= Len(src)
                 THEN Yield(stop, NoItem("Panic"))       \* self.chars.next().unwrap()
                 ELSE Yield(stop + 1,
                            OkItem(initial_position, "Str",
                                   SubSeq(src, at + 3, stop - 2), 0,
                                   <<initial_position, stop + 1>>, stop + 1))
         [] peek(src, at) = Quote /\ peek(src, at + 1) # Quote ->
              Yield(at + 1, OkItem(initial_position, "Str", <<>>, 0,
                                   <<initial_position, initial_position + 2>>,
                                   initial_position + 2))
         [] peek(src, at) \notin {None, Quote} ->
              \* parse simple ' ... ' string
              LET stop == TakeWhile(src, at, LAMBDA c : c # Quote)
                  \* the offset char_indices gave for the last character taken
                  last_index == CharBefore(src, stop)
              IN Yield(IF stop < Len(src) THEN stop + 1 ELSE stop,
                       OkItem(initial_position, "Str", SubSeq(src, at + 1, stop), 0,
                              <<initial_position, last_index + 2>>, last_index + 2))

SingleCharToks ==
    [c \in {":"} |-> "Colon"] @@ [c \in {","} |-> "Comma"] @@ [c \in {"."} |-> "Dot"] @@
    [c \in {"("} |-> "POPEN"] @@ [c \in {")"} |-> "PCLOSE"] @@ [c \in {"="} |-> "Eq"]

OperatorToks ==
    [c \in {"+"} |-> "Add"] @@ [c \in {"-"} |-> "Sub"] @@ [c \in {"*"} |-> "Mul"] @@
    [c \in {"/"} |-> "Div"] @@ [c \in {"%"} |-> "Mod"]

\* Iterator::next: one call, from the position self.chars is at
Lexer_next(src, pos) ==
    LET i == TakeWhile(src, pos, LAMBDA c : c # "\n" /\ is_whitespace(c))
        chr == peek(src, i)
        one(tok) == Yield(i + 1, OkItem(i, tok, <<>>, 0, <<i, i + 1>>, i + 1))
        two(tok) == Yield(i + 2, OkItem(i, tok, <<>>, 0, <<i, i + 2>>, i + 2))
    IN CASE chr = None -> Yield(i, NoItem("None"))
         [] chr = "\n" -> Yield(i + 1, OkItem(i, "Newline", <<>>, 0, NoLoc, i + 1))
         [] chr \in DOMAIN SingleCharToks -> one(SingleCharToks[chr])
         [] chr \in DOMAIN OperatorToks ->
              IF peek(src, i + 1) = "=" THEN two(OperatorToks[chr] \o "Eq")
              ELSE one(OperatorToks[chr])
         [] is_ascii_alphabetic(chr) \/ chr = "_" -> Lexer_parse_identifier(src, i)
         [] is_ascii_digit(chr) -> Lexer_parse_number(src, i, chr)
         [] chr = Quote -> Lexer_parse_string(src, i)
         [] OTHER -> Yield(i + len_utf8(chr), ErrItem("UnrecognizedToken", i))

\* next() returned Some(Ok(..))
LexerYields ==
    /\ lexer.state = "ready"
    /\ LET y == Lexer_next(input, lexer.pos)
       IN /\ y.item.tag = "Ok"
          /\ items' = Append(items, y.item)
          /\ lexer' = [lexer EXCEPT !.pos = y.pos]
    /\ UNCHANGED <<tokens, parser, pc, result, input>>

\* next() returned Some(Err(..)) and left the character in the stream
LexerReports_stalled ==
    /\ lexer.state = "ready"
    /\ LET y == Lexer_next(input, lexer.pos)
       IN /\ y.item.tag = "Err"
          /\ items' = Append(items, y.item)
    /\ UNCHANGED <<tokens, parser, pc, result, input, lexer>>

\* next() returned Some(Err(..))
LexerReports ==
    /\ lexer.state = "ready"
    /\ LET y == Lexer_next(input, lexer.pos)
       IN /\ y.item.tag = "Err"
          /\ items' = Append(items, y.item)
          /\ lexer' = [lexer EXCEPT !.pos = y.pos]
    /\ UNCHANGED <<tokens, parser, pc, result, input>>

\* next() returned None
LexerEnds ==
    /\ lexer.state = "ready"
    /\ LET y == Lexer_next(input, lexer.pos)
       IN /\ y.item.tag = "None"
          /\ lexer' = [pos |-> y.pos, state |-> "ended"]
    /\ UNCHANGED <<tokens, parser, pc, result, input, items>>

\* next() panicked
LexerPanics ==
    /\ lexer.state = "ready"
    /\ LET y == Lexer_next(input, lexer.pos)
       IN /\ y.item.tag = "Panic"
          /\ lexer' = [pos |-> y.pos, state |-> "panicked"]
    /\ UNCHANGED <<tokens, parser, pc, result, input, items>>

\* the characters sources are written with
SrcAlphabet == {"'", "a", "0", "x", "=", "+", " ", "\n", "$"}

\* the characters number literals are written with
NumberAlphabet == {"0", "1", "7", "a", "F", "x", "X"}

\* sources that begin with a digit
NumberSources ==
    {s \in UNION {[1..n -> NumberAlphabet] : n \in 1..MaxSrcLen} : is_ascii_digit(s[1])}

\* the characters operators are written with
OperatorAlphabet == {"+", "-", "*", "/", "%", "<", ">", "=", "!"}

OperatorSources == UNION {[1..n -> OperatorAlphabet] : n \in 1..(MaxSrcLen - 1)}

\* the characters string literals are written with
StringAlphabet == {"'", "a", "\n"}

\* sources that begin with a quote
StringSources ==
    {s \in UNION {[1..n -> StringAlphabet] : n \in 1..MaxStrLen} : s[1] = Quote}

\* the characters of sources with text outside ASCII
Utf8Alphabet == {"'", "a", " ", EAcute}

\* str::as_bytes of a text given by its characters
RECURSIVE Utf8(_)
Utf8(chars) ==
    IF chars = <<>> THEN <<>>
    ELSE (IF chars[1] = EAcute THEN <<EAcute, Continuation>> ELSE <<chars[1]>>)
         \o Utf8(Tail(chars))

Utf8Sources == {Utf8(t) : t \in UNION {[1..n -> Utf8Alphabet] : n \in 1..MaxUtf8Len}}

\* the white space the lexer skips, around an identifier
WhitespaceAlphabet == {" ", "\t", VerticalTab, "\f", "\r", "a"}

WhitespaceSources == UNION {[1..n -> WhitespaceAlphabet] : n \in 1..MaxWsLen}

Sources ==
    UNION {[1..n -> SrcAlphabet] : n \in 0..MaxSrcLen} \cup NumberSources
    \cup OperatorSources \cup StringSources \cup WhitespaceSources \cup Utf8Sources

InitLexer ==
    /\ input \in Sources
    /\ lexer = NewLexer
    /\ items = <<>>
    /\ tokens = <<>>
    /\ parser = <<>>
    /\ pc = <<>>
    /\ result = <<>>

NextLexer ==
    \/ LexerYields
    \/ LexerReports
    \/ LexerEnds
    \/ LexerPanics

(***************************************************************************)
(* The token streams the parser is run on.                                 *)
(***************************************************************************)
WS == <<"WHITESPACE">>

NL == <<"NEWLINE">>

Alphabet ==
    {"ID", "EQ", "PLUS", "L_PAREN", "R_PAREN", "L_BRACKET", "R_BRACKET", "COMMA",
     "LET_KW", "IF_KW", "RETURN_KW", "WHITESPACE", "NEWLINE"}

\* kinds whose lexemes run together when adjacent: a lexer never yields two in a row
WordKinds ==
    {"ID", "NUMBER", "AND_KW", "OR_KW", "NOT_KW", "IN_KW", "FN_KW", "ELSE_KW",
     "TRUE_KW", "FALSE_KW", "LET_KW", "IF_KW", "FOREACH_KW", "CONTINUE_KW",
     "BREAK_KW", "RETURN_KW"}

Lexable(k) ==
    \A i \in 1..(Len(k) - 1) :
        /\ ~(k[i] \in WordKinds /\ k[i + 1] \in WordKinds)
        /\ ~(k[i] = "WHITESPACE" /\ k[i + 1] = "WHITESPACE")

AnyInputs ==
    {k \in UNION {[1..n -> Alphabet] : n \in 0..MaxLen} : Lexable(k)}

\* the tokens of `ks`, a sequence of token groups, with `sep` after every group
RECURSIVE Joined(_, _)
Joined(ks, sep) ==
    IF Len(ks) = 0 THEN <<>> ELSE ks[1] \o sep \o Joined(Tail(ks), sep)

\* ---- declarations:  let ID = E  followed by trivia and perhaps a NEWLINE
NoNewlineTrails == {<<>>, WS, <<"LINE_COMMENT">>, <<"WHITESPACE", "BLOCK_COMMENT">>}

NewlineTrails == {NL, WS \o NL, <<"LINE_COMMENT", "NEWLINE">>}

DeclShapes ==
    [s1 : {<<>>, WS}, s2 : {<<>>, WS}, e : {"NUMBER", "ID"},
     trail : NoNewlineTrails \cup NewlineTrails]

DeclKinds(d) ==
    <<"LET_KW", "WHITESPACE", "ID">> \o d.s1 \o <<"EQ">> \o d.s2 \o <<d.e>> \o d.trail

DeclInputs == {DeclKinds(d) : d \in DeclShapes}

\* ---- a statement whose next line begins with `[` or `(`
BoundaryInput ==
    <<"ID", "WHITESPACE", "EQ", "WHITESPACE", "ID", "NEWLINE",
      "L_BRACKET", "NUMBER", "R_BRACKET", "NEWLINE">>

\* the source text of parser-testenv.rs
TestEnvInput ==
    <<"ID", "WHITESPACE", "EQ", "WHITESPACE", "ID", "NEWLINE", "WHITESPACE",
      "L_BRACKET", "NUMBER", "R_BRACKET", "NEWLINE", "WHITESPACE">>

BoundaryInputs ==
    {BoundaryInput, TestEnvInput,
     <<"ID", "WHITESPACE", "EQ", "WHITESPACE", "ID", "NEWLINE",
       "L_PAREN", "NUMBER", "R_PAREN", "NEWLINE">>,
     <<"ID", "WHITESPACE", "EQ", "WHITESPACE", "ID", "L_BRACKET", "NUMBER",
       "R_BRACKET", "NEWLINE">>}

\* ---- calls  f(arg, ...)
ArgShapes ==
    [k \in {"num"} |-> <<"NUMBER">>] @@
    [k \in {"id"} |-> <<"ID">>] @@
    [k \in {"kw"} |-> <<"ID", "WHITESPACE", "EQ", "WHITESPACE", "NUMBER">>] @@
    [k \in {"kw_tight"} |-> <<"ID", "EQ", "ID">>] @@
    [k \in {"kw_comment"} |-> <<"ID", "BLOCK_COMMENT", "EQ", "NUMBER">>] @@
    [k \in {"id_newline_eq"} |-> <<"ID", "NEWLINE", "EQ", "NUMBER">>] @@
    [k \in {"id_eq_eq"} |-> <<"ID", "WHITESPACE", "EQ_EQ", "WHITESPACE", "NUMBER">>]

CallShapes ==
    UNION {[args : [1..n -> DOMAIN ArgShapes], sep : {<<"COMMA">>, <<"COMMA", "WHITESPACE">>}]
           : n \in 1..MaxArgs}

RECURSIVE ArgList(_, _, _)
ArgList(c, i, n) ==
    IF i > n THEN <<>>
    ELSE ArgShapes[c.args[i]] \o (IF i < n THEN c.sep ELSE <<>>) \o ArgList(c, i + 1, n)

CallKinds(c) ==
    <<"ID", "L_PAREN">> \o ArgList(c, 1, Len(c.args)) \o <<"R_PAREN">>

CallInputs == {CallKinds(c) : c \in CallShapes}

\* ---- binary operators:  a op1 b op2 c  and same-level chains
\* the precedence levels as the language documents them, loosest first
PrecedenceLevels ==
    <<{"OR_KW"}, {"AND_KW"}, {"EQ_EQ", "NOT_EQ"},
      {"LESS", "LESS_EQ", "GREATER", "GREATER_EQ"}, {"SHIFT_LEFT", "SHIFT_RIGHT"},
      {"PLUS", "MINUS"}, {"ASTERISK", "SLASH", "PERCENT"}>>

BinaryOps == UNION {PrecedenceLevels[l] : l \in DOMAIN PrecedenceLevels}

Tightness(op) == CHOOSE l \in DOMAIN PrecedenceLevels : op \in PrecedenceLevels[l]

PrecShapes ==
    [prims : {<<"NUMBER", "NUMBER", "NUMBER">>, <<"ID", "NUMBER", "ID">>},
     op1 : BinaryOps, op2 : BinaryOps]

PrecKinds(x) ==
    Joined(<<<<x.prims[1]>>, <<x.op1>>, <<x.prims[2]>>, <<x.op2>>>>, WS) \o <<x.prims[3]>>

PrecInputs == {PrecKinds(x) : x \in PrecShapes}

ChainShapes ==
    UNION {[1..n -> PrecedenceLevels[l]] : n \in 1..MaxChain, l \in DOMAIN PrecedenceLevels}

RECURSIVE ChainKinds(_)
ChainKinds(ops) ==
    IF Len(ops) = 0 THEN <<"NUMBER">>
    ELSE ChainKinds(SubSeq(ops, 1, Len(ops) - 1)) \o WS \o <<ops[Len(ops)]>> \o WS
         \o <<"NUMBER">>

ChainInputs == {ChainKinds(ops) : ops \in ChainShapes}

\* ---- conditionals, loops and control statements
\* ---- sources that end inside a construct: after an assignment, binary or
\* unary operator, after an opening bracket or a separator, after a keyword
UnfinishedInputs ==
    {<<"ID", "WHITESPACE", "EQ">>,
     <<"NUMBER", "WHITESPACE", "PLUS">>,
     <<"MINUS">>,
     <<"L_PAREN">>,
     <<"L_BRACKET">>,
     <<"L_BRACE">>,
     <<"L_BRACKET", "NUMBER", "COMMA">>,
     <<"ID", "L_PAREN", "NUMBER", "COMMA">>,
     <<"RETURN_KW">>,
     <<"BREAK_KW">>,
     <<"LET_KW", "WHITESPACE", "ID", "WHITESPACE", "EQ">>,
     <<"IF_KW">>,
     <<"IF_KW", "WHITESPACE", "ID", "WHITESPACE", "L_BRACE">>,
     <<"FOREACH_KW", "WHITESPACE", "ID", "WHITESPACE", "IN_KW">>}

\* ---- delimited lists whose first element is followed by a token that is
\* neither the separator nor the terminator
ListShapes ==
    [open : {"L_BRACKET", "L_PAREN"}, callee : {<<>>, <<"ID">>}, e : {"ID", "NUMBER"},
     s : {<<>>, WS}, bad : {"COLON", "R_BRACE", "SEMICOLON"}, rest : {<<>>, NL}]

ListKinds(l) == l.callee \o <<l.open, l.e>> \o l.s \o <<l.bad>> \o l.rest

ListInputs ==
    {ListKinds(l) : l \in {m \in ListShapes : m.callee = <<>> \/ m.open = "L_PAREN"}}
    \cup {<<"L_BRACKET", "NUMBER", "COMMA", "NUMBER", "R_BRACKET", "NEWLINE">>,
          <<"L_PAREN", "NUMBER", "COMMA", "NUMBER">>,
          <<"ID", "L_PAREN", "NUMBER", "R_PAREN", "NEWLINE">>}

\* ---- control statements: the keyword, trivia, perhaps an expression, a
\* NEWLINE, and perhaps a statement on the next line
ControlShapes ==
    [kw : {"CONTINUE_KW", "RETURN_KW", "BREAK_KW"}, s : {<<>>, WS},
     e : {<<>>, <<"NUMBER">>}, rest : {<<>>, <<"ID", "NEWLINE">>}]

ControlKinds(c) == <<c.kw>> \o c.s \o c.e \o NL \o c.rest

ControlInputs ==
    {ControlKinds(c) :
        c \in {d \in ControlShapes :
                 /\ d.kw = "CONTINUE_KW" => d.e = <<>>
                 /\ d.e # <<>> => d.s = WS}}

\* ---- `let ID = E NEWLINE` and `ID = E NEWLINE` for well-formed expressions E
WellFormedExprs ==
    {<<"NUMBER">>, <<"STRING">>, <<"NUMBER", "PLUS", "ID">>,
     <<"L_BRACKET", "NUMBER", "R_BRACKET">>,
     <<"ID", "L_PAREN", "NUMBER", "R_PAREN">>,
     <<"ID", "L_BRACKET", "NUMBER", "R_BRACKET">>}

TerminatedShapes ==
    [lhs : {<<"LET_KW", "WHITESPACE", "ID", "WHITESPACE", "EQ", "WHITESPACE">>,
            <<"ID", "WHITESPACE", "EQ", "WHITESPACE">>},
     e : WellFormedExprs, s : {<<>>, WS}, rest : {<<>>, <<"ID", "NEWLINE">>}]

TerminatedKinds(t) == t.lhs \o t.e \o t.s \o NL \o t.rest

TerminatedInputs == {TerminatedKinds(t) : t \in TerminatedShapes}

\* ---- `ID op E NEWLINE` for every assignment operator, and the expression
\* statement `E NEWLINE`, each perhaps followed by a statement on the next line
AssignShapes ==
    [op : AssignmentOps, e : WellFormedExprs, s : {<<>>, WS},
     rest : {<<>>, <<"ID", "NEWLINE">>}]

AssignKinds(a) == <<"ID", "WHITESPACE", a.op, "WHITESPACE">> \o a.e \o a.s \o NL \o a.rest

AssignInputs == {AssignKinds(a) : a \in AssignShapes}

ExprStmtShapes == [e : WellFormedExprs, rest : {<<>>, <<"ID", "NEWLINE">>}]

ExprStmtKinds(x) == x.e \o NL \o x.rest

ExprStmtInputs == {ExprStmtKinds(x) : x \in ExprStmtShapes}

\* ---- a declaration that was begun and not finished, then a whole one
\* `let x = 1 `, `let x =` NEWLINE and `let x` NEWLINE
UnfinishedDeclarations ==
    {Joined(<<<<"LET_KW">>, <<"ID">>, <<"EQ">>, <<"NUMBER">>>>, WS),
     Joined(<<<<"LET_KW">>, <<"ID">>>>, WS) \o <<"EQ", "NEWLINE">>,
     <<"LET_KW", "WHITESPACE", "ID", "NEWLINE">>}

\* `let x = 1` NEWLINE
FollowingDeclaration ==
    Joined(<<<<"LET_KW">>, <<"ID">>, <<"EQ">>>>, WS) \o <<"NUMBER", "NEWLINE">>

RecoveryInputs == {u \o FollowingDeclaration : u \in UnfinishedDeclarations}

StatementInputs ==
    {Joined(<<<<"IF_KW">>, <<"ID">>, <<"L_BRACE">>>>, WS) \o <<"R_BRACE", "NEWLINE">>,
     Joined(<<<<"IF_KW">>, <<"ID">>, <<"L_BRACE">>, <<"R_BRACE">>, <<"ELSE_KW">>>>, WS)
        \o <<"L_BRACE", "R_BRACE">>,
     Joined(<<<<"IF_KW">>, <<"ID">>, <<"L_BRACE">>, <<"R_BRACE">>>>, WS) \o <<"ELSE_KW">>,
     <<"IF_KW", "WHITESPACE", "ID">>,
     <<"IF_KW", "WHITESPACE", "ID", "NEWLINE">>,
     Joined(<<<<"FOREACH_KW">>, <<"ID">>, <<"IN_KW">>>>, WS) \o <<"ID">>,
     Joined(<<<<"FOREACH_KW">>, <<"ID">>, <<"IN_KW">>, <<"ID">>>>, WS)
        \o <<"L_BRACE", "R_BRACE">>,
     <<"CONTINUE_KW", "NEWLINE">>,
     <<"BREAK_KW", "NEWLINE", "ID">>,
     <<"RETURN_KW", "WHITESPACE", "NUMBER", "NEWLINE">>,
     <<"L_BRACE", "NEWLINE", "ID", "NEWLINE", "R_BRACE">>,
     <<"STRING", "NEWLINE">>,
     <<"MINUS", "NUMBER", "L_BRACKET", "NUMBER", "R_BRACKET">>,
     <<"NUMBER", "PLUS", "NUMBER", "PLUS", "R_PAREN">>}

Inputs ==
    AnyInputs \cup DeclInputs \cup BoundaryInputs \cup CallInputs \cup PrecInputs
    \cup ChainInputs \cup StatementInputs \cup UnfinishedInputs
    \cup ListInputs \cup ControlInputs \cup TerminatedInputs
    \cup AssignInputs \cup ExprStmtInputs \cup RecoveryInputs

Init ==
    /\ tokens \in {TokenStream(k) : k \in Inputs}
    /\ parser = [r \in {1} |-> NewParser(tokens)]
    /\ pc = [r \in {1} |-> "start"]
    /\ result = [r \in {1} |-> NoParse]
    /\ input = <<>>
    /\ lexer = NewLexer
    /\ items = <<>>

Next ==
    \/ \E r \in DOMAIN parser : Begin(r)
    \/ \E r \in DOMAIN parser : StatementOk(r)
    \/ \E r \in DOMAIN parser : StatementIncomplete(r)
    \/ \E r \in DOMAIN parser : StatementHalts(r)
    \/ \E r \in DOMAIN parser : EndOfInput(r)
    \/ \E r \in DOMAIN parser : Panics(r)
    \/ \E r \in DOMAIN parser : Finish(r)


(***************************************************************************)
(* Reading finished trees.                                                 *)
(***************************************************************************)
RECURSIVE TreeText(_)
RECURSIVE ChildrenText(_, _)
\* the leaf texts of an element, concatenated in document order
TreeText(e) == IF e.leaf THEN e.text ELSE ChildrenText(e.ch, Len(e.ch))

ChildrenText(ch, n) ==
    IF n = 0 THEN "" ELSE ChildrenText(ch, n - 1) \o TreeText(ch[n])

\* start_node and start_node_at calls among the first n builder calls
Opened(ops, n) ==
    Cardinality({i \in 1..n : ops[i].op \in {"start_node", "start_node_at"}})

\* finish_node calls among the first n builder calls
Closed(ops, n) == Cardinality({i \in 1..n : ops[i].op = "finish_node"})

BuilderPanics ==
    {"checkpoint no longer valid, was finish_node called early?",
     "checkpoint no longer valid, was an unmatched start_node_at called?",
     "finish_node: no open node",
     "finish_node: drain out of range",
     "builder.finish(): assertion failed"}

Runs == DOMAIN parser

KindsOf(toks) == [i \in 1..Len(toks) |-> toks[i].kind]

(***************************************************************************)
(* Properties of the parser.                                               *)
(***************************************************************************)
\* C1: when a parse has finished, the texts of the leaves of its tree, read in
\* document order, are exactly the source text the tokens were cut from.
Lossless ==
    \A r \in Runs :
        pc[r] = "done" =>
            TreeText(result[r].green_node) = SourceText(tokens, Len(tokens))

\* C2: no token stream makes the parser panic; every run ends with a Parse.
ParseNeverAborts == \A r \in Runs : pc[r] # "panicked"

\* C3: node openings and closings stay balanced on every path.  No prefix of
\* the builder calls closes more nodes than it opened, the open nodes are the
\* openings not yet closed, between two statements only ROOT is open (so a
\* statement that fails has closed all it opened), the builder never refuses
\* a call, and a finished parse has closed every node it opened, the last
\* call closing ROOT, which is the one element handed to the Parse.
NodesBalanced ==
    \A r \in Runs :
        LET p == parser[r]
            n == Len(p.ops)
        IN /\ \A i \in 0..n : Closed(p.ops, i) <= Opened(p.ops, i)
           /\ Len(p.parents) = Opened(p.ops, n) - Closed(p.ops, n)
           /\ p.panic \notin BuilderPanics
           /\ pc[r] \in {"loop", "break"} => Len(p.parents) = 1
           /\ pc[r] # "start" =>
                 /\ p.ops[1] = Op("start_node", "ROOT", 0, "")
                 /\ \A i \in 1..(n - 1) : Closed(p.ops, i) < Opened(p.ops, i)
           /\ pc[r] = "done" =>
                 /\ p.parents = <<>>
                 /\ Opened(p.ops, n) = Closed(p.ops, n)
                 /\ p.ops[n].op = "finish_node"
                 /\ result[r].green_node.kind = "ROOT"
                 /\ p.children = <<result[r].green_node>>

\* a finished parse of a statement that failed inside nested nodes, one of
\* them opened at a checkpoint
NodesBalancedWitness ==
    \E r \in Runs :
        /\ pc[r] = "done"
        /\ result[r].errors # <<>>
        /\ Opened(parser[r].ops, Len(parser[r].ops)) >= 4
        /\ \E i \in 1..Len(parser[r].ops) : parser[r].ops[i].op = "start_node_at"

(***************************************************************************)
(* Shapes of finished trees.                                               *)
(***************************************************************************)
\* the kinds of the interior nodes directly below `e`
NodeKinds(e) ==
    LET nodes == SelectSeq(e.ch, LAMBDA c : ~c.leaf)
    IN [i \in 1..Len(nodes) |-> nodes[i].kind]

\* the first interior node of kind `kind` directly below `e`, an empty node if none
Child(e, kind) ==
    LET nodes == SelectSeq(e.ch, LAMBDA c : ~c.leaf /\ c.kind = kind)
    IN IF Len(nodes) = 0 THEN Node("", <<>>) ELSE nodes[1]

RECURSIVE Syntax(_)
\* an element with its trivia leaves removed
Syntax(e) ==
    IF e.leaf THEN e
    ELSE LET kept == SelectSeq(e.ch, LAMBDA c : ~(c.leaf /\ is_trivia(c.kind)))
         IN Node(e.kind, [i \in 1..Len(kept) |-> Syntax(kept[i])])

\* the kinds of the nodes a parser has opened so far
BuiltKinds(p) ==
    {p.ops[i].kind : i \in {j \in 1..Len(p.ops) : p.ops[j].op \in {"start_node", "start_node_at"}}}

Operator(op) == Leaf(op, Lexeme[op])

Primary(k) == Node("PrimaryExpr", <<Leaf(k, Lexeme[k])>>)

Infix(l, op, r) == Node("InfixBinOpExpr", <<l, Operator(op), r>>)

ExprStatement(e) == Node("ROOT", <<Node("Expr", <<e>>)>>)

Incompleteness == Diag("incomplete", <<>>, None, DefaultSpan)

\* C4: when an assignment's right-hand side is followed by NEWLINE and the next
\* line begins with `[` or `(`, the bracket is not attached to the primary
\* before the NEWLINE; `x = a NEWLINE [1] NEWLINE` is an Assignment and then
\* an array-literal expression statement, without diagnostics.
StatementBoundary ==
    \A r \in Runs :
        pc[r] = "done" =>
            /\ KindsOf(tokens) \in BoundaryInputs /\ KindsOf(tokens)[6] = "NEWLINE" =>
                  BuiltKinds(parser[r]) \cap {"IndexedExpr", "FuncCallExpr"} = {}
            /\ KindsOf(tokens) \in {BoundaryInput, TestEnvInput} =>
                  /\ result[r].errors = <<>>
                  /\ NodeKinds(result[r].green_node) = <<"Assignment", "Expr">>
                  /\ "ArrayLitExpr" \in BuiltKinds(parser[r])

\* C5: a declaration `let ID = E`, E one NUMBER or ID, parses without a panic;
\* when no NEWLINE follows E before the end of input the diagnostics are
\* exactly one "incomplete"; when a NEWLINE and then the end of input follows
\* there are no diagnostics and ROOT holds exactly one node, a Declaration.
StatementSeparation ==
    \A r \in Runs :
        KindsOf(tokens) \in DeclInputs =>
            /\ pc[r] # "panicked"
            /\ pc[r] = "done" =>
                  IF \E i \in 1..Len(tokens) : tokens[i].kind = "NEWLINE"
                  THEN /\ result[r].errors = <<>>
                       /\ NodeKinds(result[r].green_node) = <<"Declaration">>
                  ELSE result[r].errors = <<Incompleteness>>

\* `let x = 1` has been parsed to the end with its one diagnostic
StatementSeparationWitness ==
    \E r \in Runs :
        /\ pc[r] = "done"
        /\ KindsOf(tokens) =
              <<"LET_KW", "WHITESPACE", "ID", "WHITESPACE", "EQ", "WHITESPACE", "NUMBER">>
        /\ result[r].errors = <<Incompleteness>>
        /\ "Declaration" \in BuiltKinds(parser[r])

\* the first kind of `ks` that is not trivia
RECURSIVE FirstNonTrivia(_)
FirstNonTrivia(ks) ==
    IF ks = <<>> THEN None
    ELSE IF is_trivia(ks[1]) THEN FirstNonTrivia(Tail(ks))
    ELSE ks[1]

\* whether an argument written with the tokens `a` is of keyword form
KeywordForm(a) == a[1] = "ID" /\ FirstNonTrivia(Tail(a) \o <<"R_PAREN">>) = "EQ"

\* the arguments of call `c` the parser gets to: all of them, or those up to
\* the first one after which neither `,` nor `)` follows
ArgsReached(c) ==
    LET stops == {i \in 1..Len(c.args) : c.args[i] = "id_newline_eq"}
    IN IF stops = {} THEN Len(c.args)
       ELSE CHOOSE i \in stops : \A j \in stops : i <= j

CallOf(ks) == CHOOSE c \in CallShapes : CallKinds(c) = ks

\* the argument list node of the call statement a tree holds
FuncCallArgsOf(root) ==
    Child(Child(Child(root, "Expr"), "FuncCallExpr"), "FuncCallArgs")

\* C6: in the argument list of a call, an argument becomes a KExpr node
\* exactly when its first token is ID and the next non-trivia token after
\* that ID is `=`, and an Expr node otherwise; first argument or later one.
KeywordArguments ==
    \A r \in Runs :
        pc[r] = "done" /\ KindsOf(tokens) \in CallInputs =>
            LET c == CallOf(KindsOf(tokens))
            IN NodeKinds(FuncCallArgsOf(result[r].green_node)) =
                  [i \in 1..ArgsReached(c) |->
                      IF KeywordForm(ArgShapes[c.args[i]]) THEN "KExpr" ELSE "Expr"]

\* `f(1, name = 2)` has been parsed: one Expr argument, one KExpr argument
KeywordArgumentsWitness ==
    \E r \in Runs :
        /\ pc[r] = "done"
        /\ KindsOf(tokens) =
              <<"ID", "L_PAREN", "NUMBER", "COMMA", "WHITESPACE", "ID", "WHITESPACE",
                "EQ", "WHITESPACE", "NUMBER", "R_PAREN">>
        /\ NodeKinds(FuncCallArgsOf(result[r].green_node)) = <<"Expr", "KExpr">>
        /\ result[r].errors = <<>>

\* C7: in `a op1 b op2 c` with op2 of a tighter level than op1 the node of op1
\* has the node of `b op2 c` as its right operand, and with op1 of a tighter
\* level than op2 the node of op2 has the node of `a op1 b` as its left operand.
Precedence ==
    \A r \in Runs :
        pc[r] = "done" /\ KindsOf(tokens) \in PrecInputs =>
            LET k == KindsOf(tokens)
                a == Primary(k[1])
                b == Primary(k[5])
                c == Primary(k[9])
                op1 == k[3]
                op2 == k[7]
            IN /\ result[r].errors = <<>>
               /\ Tightness(op2) > Tightness(op1) =>
                     Syntax(result[r].green_node) =
                        ExprStatement(Infix(a, op1, Infix(b, op2, c)))
               /\ Tightness(op1) > Tightness(op2) =>
                     Syntax(result[r].green_node) =
                        ExprStatement(Infix(Infix(a, op1, b), op2, c))

\* `1 + 2 * 3` has been parsed: the `*` node is the right operand of the `+` node
PrecedenceWitness ==
    \E r \in Runs :
        /\ pc[r] = "done"
        /\ KindsOf(tokens) = PrecKinds([prims |-> <<"NUMBER", "NUMBER", "NUMBER">>,
                                        op1 |-> "PLUS", op2 |-> "ASTERISK"])
        /\ Syntax(result[r].green_node) =
              ExprStatement(Infix(Primary("NUMBER"), "PLUS",
                                  Infix(Primary("NUMBER"), "ASTERISK", Primary("NUMBER"))))

\* the operators of a chain, read off its tokens
ChainOps(k) == [i \in 1..((Len(k) - 1) \div 4) |-> k[4 * i - 1]]

RECURSIVE LeftNested(_, _)
\* ((a op1 b) op2 c) ... for the first n operators of a chain of NUMBERs
LeftNested(ops, n) ==
    IF n = 0 THEN Primary("NUMBER")
    ELSE Infix(LeftNested(ops, n - 1), ops[n], Primary("NUMBER"))

\* C8: a chain of operators of one precedence level nests to the left: each
\* further operator takes all that was parsed before it as its left operand.
LeftAssociativity ==
    \A r \in Runs :
        pc[r] = "done" /\ KindsOf(tokens) \in ChainInputs =>
            LET ops == ChainOps(KindsOf(tokens))
            IN /\ result[r].errors = <<>>
               /\ Syntax(result[r].green_node) = ExprStatement(LeftNested(ops, Len(ops)))

\* `1 - 2 - 3` has been parsed: the first child of the outer node is `1 - 2`
LeftAssociativityWitness ==
    \E r \in Runs :
        /\ pc[r] = "done"
        /\ KindsOf(tokens) = ChainKinds(<<"MINUS", "MINUS">>)
        /\ Syntax(result[r].green_node) =
              ExprStatement(Infix(Infix(Primary("NUMBER"), "MINUS", Primary("NUMBER")),
                                  "MINUS", Primary("NUMBER")))

(***************************************************************************)
(* Properties of the lexer.                                                *)
(***************************************************************************)
\* a source that is one string literal whose closing quotes never come: the
\* opening quote or the three opening quotes, then characters other than `'`
UnterminatedLiteral(src) ==
    /\ Len(src) >= 1
    /\ src[1] = Quote
    /\ \/ \A i \in 2..Len(src) : src[i] # Quote
       \/ /\ Len(src) >= 3
          /\ src[2] = Quote /\ src[3] = Quote
          /\ \A i \in 4..Len(src) : src[i] # Quote

\* C10: on a source that ends inside a string literal the lexer does not
\* panic, and when its iteration has ended it has yielded exactly one item,
\* the error StringStartedButNotEnded at the offset of the opening quote.
UnterminatedString ==
    UnterminatedLiteral(input) =>
        /\ lexer.state # "panicked"
        /\ lexer.state = "ended" => items = <<ErrItem("StringStartedButNotEnded", 0)>>

\* C11: a source that ends inside a construct it has begun is reported as
\* "incomplete": a finished parse of such a source has an "incomplete"
\* diagnostic among its errors (so it never ends with no diagnostics).
EndOfInputIncomplete ==
    \A r \in Runs :
        (pc[r] = "done" /\ KindsOf(tokens) \in UnfinishedInputs) =>
            \E i \in 1..Len(result[r].errors) : result[r].errors[i].msg = "incomplete"

RECURSIVE NodesOf(_)
\* the interior nodes of an element, itself included
NodesOf(e) ==
    IF e.leaf THEN {} ELSE {e} \cup UNION {NodesOf(e.ch[i]) : i \in 1..Len(e.ch)}

RECURSIVE LeavesOf(_)
\* the kinds of the leaves of an element
LeavesOf(e) ==
    IF e.leaf THEN {e.kind} ELSE UNION {LeavesOf(e.ch[i]) : i \in 1..Len(e.ch)}

\* the terminator of each kind of delimited list
Terminator ==
    [k \in {"ArrayLitExpr"} |-> "R_BRACKET"] @@ [k \in {"TupleExpr"} |-> "R_PAREN"] @@
    [k \in {"FuncCallArgs"} |-> "R_PAREN"]

\* the span of the first token of kind `k`
SpanOfFirst(toks, k) ==
    toks[CHOOSE i \in 1..Len(toks) : toks[i].kind = k /\ \A j \in 1..(i - 1) : toks[j].kind # k].span

\* an element followed by a token that is neither separator nor terminator:
\* an ERROR leaf, and the one diagnostic "expected one of {terminator, separator}"
\* with that token's span
ListAborted ==
    \A r \in Runs : \A l \in ListShapes :
        (pc[r] = "done" /\ KindsOf(tokens) = ListKinds(l)) =>
            /\ result[r].errors =
                 <<Diag("expected one of",
                        <<IF l.open = "L_BRACKET" THEN "R_BRACKET" ELSE "R_PAREN", "COMMA">>,
                        None, SpanOfFirst(tokens, l.bad))>>
            /\ "ERROR" \in LeavesOf(result[r].green_node)

\* a parse without diagnostics has the terminator in every list it built
ListTerminated ==
    \A r \in Runs :
        (pc[r] = "done" /\ result[r].errors = <<>>) =>
            \A n \in NodesOf(result[r].green_node) :
                n.kind \in DOMAIN Terminator =>
                    \E i \in 1..Len(n.ch) : n.ch[i].leaf /\ n.ch[i].kind = Terminator[n.kind]

\* C12: in an array literal, a tuple or a call's arguments, an element followed
\* by neither the separator nor the terminator aborts the list with an ERROR
\* leaf and "expected one of {terminator, separator}" at that token's span, and
\* a list is completed without a diagnostic only when its terminator is there.
DelimitedLists == ListAborted /\ ListTerminated

\* this step appends an "incomplete" diagnostic to the errors of run r
RecordsIncomplete(r) ==
    /\ Len(parser'[r].errors) = Len(parser[r].errors) + 1
    /\ parser'[r].errors[Len(parser'[r].errors)].msg = "incomplete"

\* the Declaration nodes among the statements of a tree
DeclarationsOf(root) ==
    {i \in 1..Len(root.ch) : ~root.ch[i].leaf /\ root.ch[i].kind = "Declaration"}

\* the tokens that only occur inside an expression or after a statement's start
MidExpressionKinds ==
    {"R_PAREN", "R_BRACKET", "R_BRACE",
     "ASTERISK", "SLASH", "PERCENT", "EQ_EQ", "NOT_EQ", "LESS", "LESS_EQ", "GREATER",
     "GREATER_EQ", "SHIFT_LEFT", "SHIFT_RIGHT", "AND_KW", "OR_KW",
     "EQ", "PLUS_EQ", "MINUS_EQ", "MUL_EQ", "DIV_EQ", "MOD_EQ",
     "DOT", "COLON", "QMARK", "SEMICOLON", "COMMA", "TILDE", "IN_KW", "FN_KW",
     "ELSE_KW", "ERROR"}

\* the meaningful token run r is at, None at the end of the input
TokenAt(r) ==
    LET p == parser[r]
    IN IF p.meaningful_index < Len(p.meaningful)
       THEN tokens[p.meaningful[p.meaningful_index + 1].index + 1]
       ELSE [kind |-> None, text |-> "", span |-> DefaultSpan]

\* a diagnostic other than "incomplete" is recorded for run r in this step
RecordsHalting(r) ==
    /\ Len(parser'[r].errors) > Len(parser[r].errors)
    /\ parser'[r].errors[Len(parser'[r].errors)].msg # "incomplete"

\* this step of run r consumes nothing, opens nothing and records nothing
Stopped(r) ==
    /\ parser'[r].index = parser[r].index
    /\ parser'[r].meaningful_index = parser[r].meaningful_index
    /\ parser'[r].errors = parser[r].errors
    /\ \A i \in (Len(parser[r].ops) + 1)..Len(parser'[r].ops) :
          parser'[r].ops[i].op = "finish_node"

\* C14: a statement that fails with an error other than "incomplete" appends
\* exactly one diagnostic and ends the Program loop; from then on no token is
\* consumed, no node is opened and no diagnostic is recorded.  A token that
\* cannot start a statement is reported at statement position as unexpected,
\* with its own span, and is not consumed.
HaltingErrorsStop ==
    [][\A r \in Runs :
         /\ (pc[r] = "loop" /\ RecordsHalting(r)) =>
               /\ pc'[r] = "break"
               /\ Len(parser'[r].errors) = Len(parser[r].errors) + 1
               /\ SubSeq(parser'[r].errors, 1, Len(parser[r].errors)) = parser[r].errors
         /\ pc[r] \in {"break", "done"} => Stopped(r)
         /\ (pc[r] = "loop" /\ TokenAt(r).kind \in MidExpressionKinds
             /\ parser'[r] # parser[r]) =>
               /\ pc'[r] = "break"
               /\ parser'[r] =
                    [parser[r] EXCEPT !.errors =
                        Append(@, Diag("unexpected", <<TokenAt(r).kind>>, None,
                                       TokenAt(r).span))]
      ]_vars

\* a statement was parsed, then a token that cannot start one was reported and
\* left unconsumed
HaltingErrorsStopWitness ==
    \E r \in Runs :
        /\ pc[r] = "done"
        /\ Len(result[r].errors) = 1
        /\ result[r].errors[1].msg = "unexpected"
        /\ result[r].errors[1].tk[1] = TokenAt(r).kind
        /\ TokenAt(r).kind \in MidExpressionKinds
        /\ result[r].green_node.ch # <<>>

\* the byte offset at which the source ends
SourceEnd(toks) == IF Len(toks) = 0 THEN 0 ELSE toks[Len(toks)].span[2]

\* C15: every diagnostic of a finished parse carries the span of a token of
\* the source or the (empty) span of the end of the input.
ExactSpans ==
    \A r \in Runs :
        pc[r] = "done" =>
            \A i \in 1..Len(result[r].errors) :
                \/ \E j \in 1..Len(tokens) : result[r].errors[i].span = tokens[j].span
                \/ result[r].errors[i].span = <<SourceEnd(tokens), SourceEnd(tokens)>>

\* the characters of the sources that no lexical rule matches
Unrecognized == {"$", EAcute}

\* the offset of the first character at or after `pos` that is not skipped as
\* whitespace, Len(src) when there is none
NextChar(src, pos) ==
    LET seen == {i \in pos..(Len(src) - 1) :
                    src[i + 1] \notin {" ", "\t", VerticalTab, "\f", "\r"}}
    IN IF seen = {} THEN Len(src) ELSE CHOOSE i \in seen : \A j \in seen : i <= j

\* C16: every call of next() that yields an item consumes at least one
\* character and never reads past the input, so an input of n characters
\* yields at most n items; a call that yields no item ends the iteration; and
\* a character that no rule matches yields UnrecognizedToken with its offset
\* and leaves the lexer at the following character.  Offsets and lengths are
\* in bytes.
NeverStalls ==
    /\ [][items' # items =>
            /\ Len(items') = Len(items) + 1
            /\ lexer.pos < lexer'.pos /\ lexer'.pos <= Len(input)]_vars
    /\ [][(lexer' # lexer /\ items' = items) => lexer'.state # "ready"]_vars
    /\ [](Len(items) <= lexer.pos /\ lexer.pos <= Len(input))
    /\ [][(/\ lexer.state = "ready"
           /\ NextChar(input, lexer.pos) < Len(input)
           /\ input[NextChar(input, lexer.pos) + 1] \in Unrecognized
           /\ lexer' # lexer) =>
            /\ items' = Append(items, ErrItem("UnrecognizedToken",
                                              NextChar(input, lexer.pos)))
            /\ lexer' = [lexer EXCEPT !.pos =
                           NextChar(input, lexer.pos)
                           + len_utf8(input[NextChar(input, lexer.pos) + 1])]]_vars

\* an unrecognized character was reported and the next item starts right after it
NeverStallsWitness ==
    /\ lexer.state = "ended"
    /\ \E i \in 1..(Len(items) - 1) :
          /\ items[i].tag = "Err" /\ items[i].tok = "UnrecognizedToken"
          /\ items[i + 1].tag = "Ok"
          /\ items[i + 1].start = items[i].start + 1

\* the leaves of the tokens of these kinds
LeavesFor(kinds) == [i \in 1..Len(kinds) |-> Leaf(kinds[i], Lexeme[kinds[i]])]

\* C17: `continue`, optional trivia and a NEWLINE are one ControlStatement
\* made of exactly those tokens, without diagnostics, at the end of the input
\* and before further statements alike.
ContinueStatement ==
    \A r \in Runs : \A c \in ControlShapes :
        (c.kw = "CONTINUE_KW" /\ c.e = <<>> /\ KindsOf(tokens) = ControlKinds(c)) =>
            /\ pc[r] # "panicked"
            /\ pc[r] = "done" =>
                  /\ result[r].errors = <<>>
                  /\ Len(result[r].green_node.ch) >= 1
                  /\ result[r].green_node.ch[1] =
                        Node("ControlStatement",
                             LeavesFor(<<"CONTINUE_KW">> \o c.s \o NL))

\* C18: after `return` or `break` an expression is parsed exactly when the
\* next non-trivia token is not NEWLINE.  With the NEWLINE right after the
\* keyword the ControlStatement has no Expr child, there are no diagnostics,
\* and the tokens of the next line stay outside the statement.
ReturnedExpression ==
    \A r \in Runs : \A c \in ControlShapes :
        (c.kw \in {"RETURN_KW", "BREAK_KW"} /\ KindsOf(tokens) = ControlKinds(c)) =>
            /\ pc[r] # "panicked"
            /\ pc[r] = "done" =>
                  LET stmt == Child(result[r].green_node, "ControlStatement")
                  IN /\ stmt.kind = "ControlStatement"
                     /\ ("Expr" \in {NodeKinds(stmt)[i] : i \in 1..Len(NodeKinds(stmt))})
                            <=> (c.e # <<>>)
                     /\ c.e = <<>> =>
                           /\ result[r].errors = <<>>
                           /\ "ID" \notin LeavesOf(stmt)

\* C19: `let ID = E NEWLINE` and `ID = E NEWLINE` parse without diagnostics
\* for every well-formed E, whichever way the last token of E is consumed.
NewlineTerminates ==
    \A r \in Runs : \A t \in TerminatedShapes :
        KindsOf(tokens) = TerminatedKinds(t) =>
            /\ pc[r] # "panicked"
            /\ pc[r] = "done" => result[r].errors = <<>>

\* the kinds at which a statement begins with a call of bump(): the keyword
\* statements, the unary operators and the opening brackets
BumpedFirst ==
    {"LET_KW", "IF_KW", "FOREACH_KW", "CONTINUE_KW", "BREAK_KW", "RETURN_KW",
     "PLUS", "MINUS", "L_PAREN", "L_BRACKET", "L_BRACE"}

\* C20: a call of bump() with a current meaningful token emits, as leaves and
\* in order, every raw token from the raw cursor up to the next meaningful
\* token (the current token itself and the trivia and newlines after it; at
\* least the current token when it is the last meaningful one) and advances
\* meaningful_index by one.
BumpEmitsCurrent ==
    \A r \in Runs :
        (pc[r] = "loop" /\ TokenAt(r).kind \in BumpedFirst) =>
            LET p == parser[r]
                q == bump(p)
                cur == p.meaningful[p.meaningful_index + 1].index
                emitted == SubSeq(q.children, Len(p.children) + 1, Len(q.children))
            IN /\ q.meaningful_index = p.meaningful_index + 1
               /\ Len(q.children) >= Len(p.children)
               /\ SubSeq(q.children, 1, Len(p.children)) = p.children
               /\ emitted = LeavesFor(SubSeq(KindsOf(tokens), p.index + 1, q.index))
               /\ q.index >= cur + 1
               /\ p.meaningful_index + 1 < Len(p.meaningful) =>
                     q.index = p.meaningful[p.meaningful_index + 2].index

\* C21: an expression followed by `=`, `+=`, `-=`, `*=`, `/=` or `%=` is wrapped:
\* the statement is an Assignment node opened at the checkpoint taken before
\* the expression, holding the left Expr, the operator, exactly one right Expr
\* and the terminating NEWLINE, without diagnostics.  An expression that no
\* assignment operator follows is an Expr node alone, holding the tokens of
\* the expression and no others, and no Assignment node is built.
AssignmentWrapping ==
    \A r \in Runs :
        pc[r] = "done" =>
            /\ \A a \in AssignShapes :
                  KindsOf(tokens) = AssignKinds(a) =>
                     LET root == Syntax(result[r].green_node)
                     IN /\ result[r].errors = <<>>
                        /\ Len(root.ch) >= 1
                        /\ root.ch[1].kind = "Assignment"
                        /\ \E i \in 1..Len(parser[r].ops) :
                              parser[r].ops[i] = Op("start_node_at", "Assignment", 0, "")
                        /\ Len(root.ch[1].ch) = 4
                        /\ root.ch[1].ch[1] = Node("Expr", <<Primary("ID")>>)
                        /\ root.ch[1].ch[2] = Operator(a.op)
                        /\ ~root.ch[1].ch[3].leaf /\ root.ch[1].ch[3].kind = "Expr"
                        /\ root.ch[1].ch[4] = Leaf("NEWLINE", Lexeme["NEWLINE"])
            /\ \A x \in ExprStmtShapes :
                  KindsOf(tokens) = ExprStmtKinds(x) =>
                     LET root == result[r].green_node
                     IN /\ "Assignment" \notin BuiltKinds(parser[r])
                        /\ Len(root.ch) >= 1
                        /\ ~root.ch[1].leaf /\ root.ch[1].kind = "Expr"
                        /\ TreeText(root.ch[1]) = SourceText(tokens, Len(x.e))

\* the value of a digit in a positional numeral: `a`-`f` and `A`-`F` are 10-15
DigitValue(c) ==
    CASE c \in {"a", "A"} -> 10
      [] c \in {"b", "B"} -> 11
      [] c \in {"c", "C"} -> 12
      [] c \in {"d", "D"} -> 13
      [] c \in {"e", "E"} -> 14
      [] c \in {"f", "F"} -> 15
      [] OTHER -> decdigit_value(c)

RECURSIVE PositionalValue(_, _)
\* the number a digit string denotes in base `base`
PositionalValue(digits, base) ==
    IF digits = <<>> THEN 0
    ELSE PositionalValue(SubSeq(digits, 1, Len(digits) - 1), base) * base
         + DigitValue(digits[Len(digits)])

\* `0x` or `0X` and at least one hexadecimal digit
HexLiteral(src) ==
    /\ Len(src) >= 3
    /\ src[1] = "0" /\ src[2] \in {"x", "X"}
    /\ \A i \in 3..Len(src) : is_ascii_hexdigit(src[i])

\* `0` and at least one octal digit
OctLiteral(src) ==
    /\ Len(src) >= 2
    /\ src[1] = "0"
    /\ \A i \in 2..Len(src) : is_oct_digit(src[i])

\* a digit other than `0`, and decimal digits
DecLiteral(src) ==
    /\ Len(src) >= 1
    /\ src[1] # "0"
    /\ \A i \in 1..Len(src) : is_ascii_digit(src[i])

\* the one Number token a source that is one literal is lexed to
WholeNumber(src, value) ==
    <<OkItem(0, "Number", <<>>, value, <<0, Len(src)>>, Len(src))>>

\* C22: a source that is one number literal is lexed to one Number token
\* spanning all of it, whose value is the digits after `0x` / `0X` read in base
\* 16 (`a`-`f`, `A`-`F` as 10-15), the digits after a leading `0` read in base
\* 8, and the digits of any other literal read in base 10.
NumberLiterals ==
    lexer.state = "ended" =>
        /\ HexLiteral(input) =>
              items = WholeNumber(input, PositionalValue(SubSeq(input, 3, Len(input)), 16))
        /\ OctLiteral(input) =>
              items = WholeNumber(input, PositionalValue(SubSeq(input, 2, Len(input)), 8))
        /\ DecLiteral(input) =>
              items = WholeNumber(input, PositionalValue(input, 10))

\* the offset of the first quote at or after `from`, Len(src) when there is none
NextQuote(src, from) ==
    LET quotes == {i \in from..(Len(src) - 1) : src[i + 1] = Quote}
    IN IF quotes = {} THEN Len(src) ELSE CHOOSE i \in quotes : \A j \in quotes : i <= j

\* the offset at which the first run of three quotes at or after `from` begins,
\* Len(src) when there is none
ClosingRun(src, from) ==
    LET runs == {i \in from..(Len(src) - 3) :
                    src[i + 1] = Quote /\ src[i + 2] = Quote /\ src[i + 3] = Quote}
    IN IF runs = {} THEN Len(src) ELSE CHOOSE i \in runs : \A j \in runs : i <= j

\* the Str token that begins at `q` with the content src[from .. to - 1] and
\* ends at `end`, as the next item and with the lexer left at `end`
YieldsStr(q, from, to, end) ==
    /\ items' = Append(items, OkItem(q, "Str", SubSeq(input, from + 1, to), 0,
                                     <<q, end>>, end))
    /\ lexer' = [lexer EXCEPT !.pos = end]

\* C23: a call of next() that finds a quote at offset q yields a Str token
\* that begins at q.  Opened by three quotes and closed by a later run of
\* three, its content is the characters between the opening and the first
\* such run and it ends right after that run; two quotes without a third are
\* the empty string of length 2; opened by one quote and closed by a later
\* quote, its content is the characters between them and it ends right after
\* the closing quote.  Offsets are byte offsets into the UTF-8 source.
StringLiterals ==
    [][\A q \in 0..(Len(input) - 1) :
         (/\ lexer.state = "ready"
          /\ q = NextChar(input, lexer.pos)
          /\ input[q + 1] = Quote
          /\ lexer' # lexer) =>
            /\ (peek(input, q + 1) = Quote /\ peek(input, q + 2) = Quote
                /\ ClosingRun(input, q + 3) < Len(input)) =>
                  YieldsStr(q, q + 3, ClosingRun(input, q + 3), ClosingRun(input, q + 3) + 3)
            /\ (peek(input, q + 1) = Quote /\ peek(input, q + 2) # Quote) =>
                  YieldsStr(q, q + 2, q + 2, q + 2)
            /\ (peek(input, q + 1) \notin {Quote, None}
                /\ NextQuote(input, q + 1) < Len(input)) =>
                  YieldsStr(q, q + 1, NextQuote(input, q + 1), NextQuote(input, q + 1) + 1)
      ]_vars

\* the two-character operators
Compounds ==
    {<<"+", "=">>, <<"-", "=">>, <<"*", "=">>, <<"/", "=">>, <<"%", "=">>,
     <<"=", "=">>, <<">", "=">>, <<"<", "=">>, <<"!", "=">>, <<"<", "<">>, <<">", ">">>}

\* the item the step has appended
Yielded == items'[Len(items')]

\* C24: a call of next() that finds one of `+ - * / % < > = !` at offset q
\* yields one token that begins at q: the compound token, two bytes long,
\* when the character and the one after it are a two-character operator, and
\* the one-character token otherwise; the lexer is left right after the token.
GreedyOperators ==
    [][\A q \in 0..(Len(input) - 1) :
         (/\ lexer.state = "ready"
          /\ q = NextChar(input, lexer.pos)
          /\ input[q + 1] \in OperatorAlphabet
          /\ lexer' # lexer) =>
            LET width == IF <<input[q + 1], peek(input, q + 1)>> \in Compounds
                         THEN 2 ELSE 1
            IN /\ Len(items') = Len(items) + 1
               /\ Yielded.tag = "Ok"
               /\ Yielded.start = q /\ Yielded.end = q + width
               /\ Yielded.loc = <<q, q + width>>
               /\ lexer'.pos = q + width
               /\ input[q + 1] \in DOMAIN OperatorToks =>
                     Yielded.tok = IF width = 2 THEN OperatorToks[input[q + 1]] \o "Eq"
                                   ELSE OperatorToks[input[q + 1]]
      ]_vars

RECURSIVE LeafSeq(_)
RECURSIVE LeafSeqOf(_, _)
\* the leaves of an element, in document order
LeafSeq(e) == IF e.leaf THEN <<e>> ELSE LeafSeqOf(e.ch, Len(e.ch))

\* the leaves of the first n elements of a list of elements
LeafSeqOf(ch, n) == IF n = 0 THEN <<>> ELSE LeafSeqOf(ch, n - 1) \o LeafSeq(ch[n])

\* the ERROR leaf with empty text that Parser::error emits
Placeholder == Leaf("ERROR", "")

\* the leaves a parser has emitted, in the order of the tree under construction,
\* without the placeholders
EmittedLeaves(p) ==
    SelectSeq(LeafSeqOf(p.children, Len(p.children)), LAMBDA l : l # Placeholder)

\* the leaves the builder was handed, in the order of the calls, without the
\* placeholders
TokenCalls(p) ==
    LET calls == SelectSeq(p.ops, LAMBDA o : o.op = "token" /\ Leaf(o.kind, o.text) # Placeholder)
    IN [i \in 1..Len(calls) |-> Leaf(calls[i].kind, calls[i].text)]

\* C25: in every state of a parse the leaves emitted so far, placeholders
\* aside, are the raw tokens [0, index), each once and in the order of the raw
\* stream, both in the order they were emitted and in the document order of
\* the tree under construction, whatever nodes were opened at checkpoints;
\* the tree of a finished parse has them in that order too.
SourceOrder ==
    \A r \in Runs :
        LET p == parser[r]
            raw == [i \in 1..p.index |-> Leaf(p.tokens[i].kind, p.tokens[i].text)]
        IN /\ p.index <= Len(p.tokens)
           /\ TokenCalls(p) = raw
           /\ EmittedLeaves(p) = raw
           /\ pc[r] = "done" =>
                 SelectSeq(LeafSeq(result[r].green_node), LAMBDA l : l # Placeholder) = raw

\* a finished parse that emitted a placeholder and re-parented leaves under a
\* node opened at a checkpoint, with trivia among the leaves
SourceOrderWitness ==
    \E r \in Runs :
        /\ pc[r] = "done"
        /\ parser[r].index >= 4
        /\ Placeholder \in {LeafSeq(result[r].green_node)[i] :
                              i \in 1..Len(LeafSeq(result[r].green_node))}
        /\ \E i \in 1..Len(parser[r].ops) : parser[r].ops[i].op = "start_node_at"
        /\ \E i \in 1..parser[r].index : is_trivia(tokens[i].kind)

\* the raw cursor is inside the token stream and not past the current
\* meaningful token, if there is one
CursorInBounds(p) ==
    /\ p.index <= Len(p.tokens)
    /\ p.meaningful_index < Len(p.meaningful) =>
          p.index <= p.meaningful[p.meaningful_index + 1].index

SlicePanics == {"slice index starts past its end", "range end index out of range"}

\* parser p with its two cursors set to these positions
CursorAt(p, index, meaningful_index) ==
    [p EXCEPT !.index = index, !.meaningful_index = meaningful_index]

\* C26: the raw cursor never passes the end of the tokens nor the current
\* meaningful token, and no slice taken by bump_raw_to is out of range.  From
\* every position of the two cursors that is within these bounds, bump and
\* bump_last take a valid slice and leave the cursors within the bounds, and
\* bump_raw on a trivia or NEWLINE token does too and leaves meaningful_index
\* as it was.
CursorInvariant ==
    \A r \in Runs :
        LET p == parser[r]
        IN /\ CursorInBounds(p)
           /\ p.panic \notin SlicePanics
           /\ pc[r] = "start" =>
              \A i \in 0..Len(p.tokens) : \A mi \in 0..(Len(p.meaningful) + 1) :
                 LET c == CursorAt(p, i, mi)
                 IN CursorInBounds(c) =>
                       /\ CursorInBounds(bump(c)) /\ bump(c).panic = c.panic
                       /\ CursorInBounds(bump_last(c)) /\ bump_last(c).panic = c.panic
                       /\ (i < Len(p.tokens) /\ ~is_meaningful(p.tokens[i + 1].kind)) =>
                             /\ CursorInBounds(bump_raw(c))
                             /\ bump_raw(c).index = i + 1
                             /\ bump_raw(c).meaningful_index = mi

\* between two statements: require_newline has taken the NEWLINE with bump_raw,
\* and the raw cursor is on the current meaningful token, the second of the run
CursorInvariantWitness ==
    \E r \in Runs :
        LET p == parser[r]
        IN /\ pc[r] = "loop"
           /\ p.index >= 1
           /\ p.tokens[p.index].kind = "NEWLINE"
           /\ p.meaningful_index >= 2
           /\ p.meaningful_index < Len(p.meaningful)
           /\ p.index = p.meaningful[p.meaningful_index + 1].index
           /\ p.ops[Len(p.ops) - 1] = Op("token", "NEWLINE", 0, Lexeme["NEWLINE"])

RECURSIVE Replay(_, _)
\* the builder after the first n of these calls: how many finished elements
\* its list holds, and the first-child positions of its open scopes
Replay(ops, n) ==
    IF n = 0 THEN [count |-> 0, scopes |-> <<>>]
    ELSE LET b == Replay(ops, n - 1)
             o == ops[n]
         IN CASE o.op = "token" -> [b EXCEPT !.count = @ + 1]
              [] o.op = "start_node" -> [b EXCEPT !.scopes = Append(@, b.count)]
              [] o.op = "start_node_at" -> [b EXCEPT !.scopes = Append(@, o.ck)]
              [] o.op = "finish_node" ->
                    [count |-> b.scopes[Len(b.scopes)] + 1,
                     scopes |-> SubSeq(b.scopes, 1, Len(b.scopes) - 1)]

CheckpointPanics ==
    {"checkpoint no longer valid, was finish_node called early?",
     "checkpoint no longer valid, was an unmatched start_node_at called?"}

WrappedKinds == {"Assignment", "InfixBinOpExpr", "FuncCallExpr", "IndexedExpr"}

\* C27: no start_node_at is refused by the builder, and each one made, for an
\* Assignment, InfixBinOpExpr, FuncCallExpr or IndexedExpr, has a checkpoint
\* that is at most the number of finished elements and at least the first-child
\* position of the innermost open scope; the checkpoint is a position the
\* builder was at earlier with the very scopes open that are open at the call,
\* so every node opened since has been closed.
CheckpointValidity ==
    \A r \in Runs :
        LET ops == parser[r].ops
        IN /\ parser[r].panic \notin CheckpointPanics
           /\ \A n \in 1..Len(ops) :
                 ops[n].op = "start_node_at" =>
                    LET b == Replay(ops, n - 1)
                    IN /\ ops[n].kind \in WrappedKinds
                       /\ ops[n].ck <= b.count
                       /\ b.scopes # <<>>
                       /\ ops[n].ck >= b.scopes[Len(b.scopes)]
                       /\ \E m \in 0..(n - 1) :
                             /\ Replay(ops, m).count = ops[n].ck
                             /\ Replay(ops, m).scopes = b.scopes

\* one checkpoint has been used for two successive wraps, the operand of the
\* second wrap returned an error, and the parse has finished
CheckpointValidityWitness ==
    \E r \in Runs :
        /\ pc[r] = "done"
        /\ result[r].errors # <<>>
        /\ \E i, j \in 1..Len(parser[r].ops) :
              /\ i < j
              /\ parser[r].ops[i].op = "start_node_at"
              /\ parser[r].ops[j] = parser[r].ops[i]

\* C28: a parse collects at most one diagnostic.  While the Program loop runs
\* the only diagnostic there can be is one "incomplete", and then the next
\* parse_lang_item returns Eof, which ends the loop without a push; any other
\* diagnostic is found only once the loop has ended.
AtMostOneDiagnostic ==
    \A r \in Runs :
        /\ Len(parser[r].errors) <= 1
        /\ pc[r] = "done" => Len(result[r].errors) <= 1
        /\ (pc[r] = "loop" /\ parser[r].errors # <<>>) =>
              /\ parser[r].errors = <<Incompleteness>>
              /\ parse_lang_item(parser[r]).tag = "Eof"
              /\ parse_lang_item(parser[r]).p.errors = parser[r].errors
        /\ (parser[r].errors # <<>> /\ parser[r].errors[1].msg # "incomplete") =>
              pc[r] \in {"break", "done"}

\* "incomplete" has been pushed and the Program loop is about to take its next
\* parse_lang_item
AtMostOneDiagnosticWitness ==
    \E r \in Runs :
        /\ pc[r] = "loop"
        /\ parser[r].errors = <<Incompleteness>>
        /\ Len(parser[r].meaningful) >= 2

\* the positions of the two cursors at which a grammar function can be
\* entered: the raw cursor after the meaningful token before the current one
\* and not after the current one
EntryCursors(p) ==
    {c \in (0..Len(p.tokens)) \X (0..Len(p.meaningful)) :
        /\ CursorInBounds(CursorAt(p, c[1], c[2]))
        /\ c[2] >= 1 => c[1] > p.meaningful[c[2]].index}

\* the element parsers parse_tt is called with
ElementParsers == {"parse_expr", "parse_farg", "parse_statement"}

\* C29: the parse ends.  An iteration of the Program loop after which the loop
\* goes on (Ok or Incomplete) began with a meaningful token left and has
\* increased meaningful_index, so there are at most as many iterations as
\* meaningful tokens, and one more.  Inside the grammar, wherever a function
\* can be entered: bump, the first step of an iteration of the loops of
\* parse_infix_binop, parse_precedence_1_expr, parse_precedence_2_expr and
\* parse_conditional, adds one to meaningful_index; an element parser of
\* parse_tt that returns Ok has increased meaningful_index; and the bump_raw
\* of require_newline on trivia adds one to index.
ParseTerminates ==
    /\ [][\A r \in Runs :
            (pc[r] = "loop" /\ pc'[r] = "loop" /\ parser'[r] # parser[r]) =>
               /\ parser[r].meaningful_index < Len(parser[r].meaningful)
               /\ parser'[r].meaningful_index > parser[r].meaningful_index]_vars
    /\ [](\A r \in Runs :
            pc[r] = "start" =>
               \A c \in EntryCursors(parser[r]) :
                  LET p == CursorAt(start_node(parser[r], "ROOT"), c[1], c[2])
                  IN /\ bump(p).meaningful_index = p.meaningful_index + 1
                     /\ \A fn \in ElementParsers :
                           call(fn, p).tag = "Ok" =>
                              call(fn, p).p.meaningful_index > p.meaningful_index
                     /\ is_trivia(current_raw(p)) =>
                           /\ bump_raw(p).index = p.index + 1
                           /\ SkipTrivia(p).index > p.index)

\* the Program loop has taken two statements and goes on
ParseTerminatesWitness ==
    \E r \in Runs :
        /\ pc[r] = "loop"
        /\ Len(parser[r].children) >= 2
        /\ parser[r].meaningful_index >= 3
        /\ parser[r].errors = <<>>

\* C30: every token the lexer yields begins at the first character that is
\* not skipped, ends where the lexer is left, which is not past the end of the
\* input, and does not begin before the end of the token before it; the end in
\* its TokLoc is the end of the triple; an identifier's text is the characters
\* of its span.  A token that runs up to the end of the input is no exception.
SpanIntegrity ==
    [][(items' # items /\ Yielded.tag = "Ok") =>
          /\ Yielded.start = NextChar(input, lexer.pos)
          /\ Yielded.start <= Yielded.end
          /\ Yielded.end <= Len(input)
          /\ Yielded.end = lexer'.pos
          /\ Yielded.loc \in {NoLoc, <<Yielded.start, Yielded.end>>}
          /\ Yielded.tok = "Identifier" =>
                Yielded.str = SubSeq(input, Yielded.start + 1, Yielded.end)
          /\ (items # <<>> /\ items[Len(items)].tag = "Ok") =>
                Yielded.start >= items[Len(items)].end
      ]_vars

Spec == Init /\ [][Next]_vars

SpecLexer == InitLexer /\ [][NextLexer]_vars

====
